---- MODULE Spec2Model ----
(***************************************************************************)
(* Model of the loanmonk (CreditMind) scoring pipeline and of the HTTP     *)
(* handlers that drive it.                                                 *)
(*                                                                         *)
(* Numbers.  The TypeScript code computes with IEEE doubles; the model     *)
(* computes with exact rationals <<n, d>> (d > 0, lowest terms), so every  *)
(* threshold comparison is the comparison of the mathematical values.      *)
(* A nullable value is a sequence of length 0 (null) or 1 (the value).     *)
(***************************************************************************)
EXTENDS Integers, Sequences, FiniteSets, TLC

VARIABLES
    arg,          \* argument record of the pure function under evaluation
    result,       \* its return value: <<>> before the call, <<value>> after
    session,      \* the sessions row of the session followed: null or [status]
    responses,    \* the responses rows of the session, in insert order
    assessments,  \* the assessments rows of the session, in insert order
    loanRecs,     \* the loan_recommendations rows, in insert order
    signals,      \* the behavioral_signals rows of the session, in insert order
    client,       \* the game client: scene, Phase1Scene fields, ResultScene data
    reply,        \* the last HTTP reply: null or [handler, status, ...]
    genFailures   \* number of question-generation failures so far

storeVars == <<session, responses, assessments, loanRecs, signals>>
vars == <<arg, result, session, responses, assessments, loanRecs, signals,
          client, reply, genFailures>>

None == <<>>
Some(x) == <<x>>

----------------------------------------------------------------------------
(* Exact arithmetic standing for the JavaScript number operations.          *)

Abs(i) == IF i < 0 THEN -i ELSE i

RECURSIVE GCD(_, _)
GCD(a, b) == IF b = 0 THEN a ELSE GCD(b, a % b)

\* the number n/d in lowest terms, d > 0
R(n, d) ==
    LET g == GCD(Abs(n), d)
    IN  IF g = 0 THEN <<0, 1>> ELSE <<n \div g, d \div g>>

RAdd(x, y) == R(x[1] * y[2] + y[1] * x[2], x[2] * y[2])
RSub(x, y) == R(x[1] * y[2] - y[1] * x[2], x[2] * y[2])
RMul(x, y) == R(x[1] * y[1], x[2] * y[2])
RLt(x, y) == x[1] * y[2] < y[1] * x[2]
RLe(x, y) == x[1] * y[2] <= y[1] * x[2]
RMin(x, y) == IF RLt(y, x) THEN y ELSE x
RMax(x, y) == IF RLt(x, y) THEN y ELSE x
RAbs(x) == <<Abs(x[1]), x[2]>>

----------------------------------------------------------------------------
(* lib/constants/index.ts                                                   *)

Traits == {"O", "C", "E", "A", "N"}

\* the object literal { O: o, C: c, E: e, A: a, N: n }
Ocean(o, c, e, a, n) ==
    ("O" :> o) @@ ("C" :> c) @@ ("E" :> e) @@ ("A" :> a) @@ ("N" :> n)

TRAIT_WEIGHTS ==
    [t \in Traits |->
        CASE t = "C" -> R(35, 100)
          [] t = "N" -> R(25, 100)
          [] t = "A" -> R(18, 100)
          [] t = "O" -> R(12, 100)
          [] t = "E" -> R(10, 100)]

PD_MIN == R(2, 100)
PD_MAX == R(35, 100)
PD_RANGE == RSub(PD_MAX, PD_MIN)

RISK_THRESHOLDS == [low |-> R(8, 100), moderate |-> R(18, 100)]

LOAN_THRESHOLDS ==
    [auto_approve_pd |-> R(8, 100),
     manual_review_pd |-> R(18, 100),
     auto_decline_pd |-> R(35, 100),
     consistency_review_threshold |-> R(40, 100)]

RiskRatings == {"low", "moderate", "elevated"}

LOAN_PARAMS ==
    [max_amount |->
        [r \in RiskRatings |->
            CASE r = "low" -> 50000 [] r = "moderate" -> 25000 [] r = "elevated" -> 10000],
     duration_months |->
        [r \in RiskRatings |->
            CASE r = "low" -> 36 [] r = "moderate" -> 24 [] r = "elevated" -> 12],
     apr_percent |->
        [r \in RiskRatings |->
            CASE r = "low" -> R(85, 10) [] r = "moderate" -> R(14, 1) [] r = "elevated" -> R(22, 1)]]

\* MONEY_PROFILES: name, trait_signature (only the traits the profile defines)
\* and pd_modifier of the ten catalog entries, in catalog order.
MONEY_PROFILES ==
    << [name |-> "Prudent Planner",
        trait_signature |-> ("C" :> R(45, 10)) @@ ("N" :> R(15, 10)),
        pd_modifier |-> R(-3, 100)],
       [name |-> "Anxious Saver",
        trait_signature |-> ("N" :> R(45, 10)) @@ ("C" :> R(35, 10)),
        pd_modifier |-> R(-1, 100)],
       [name |-> "Social Spender",
        trait_signature |-> ("A" :> R(45, 10)) @@ ("E" :> R(4, 1)),
        pd_modifier |-> R(2, 100)],
       [name |-> "Impulsive Optimist",
        trait_signature |-> ("O" :> R(45, 10)) @@ ("N" :> R(15, 10)) @@ ("C" :> R(2, 1)),
        pd_modifier |-> R(5, 100)],
       [name |-> "Cautious Traditionalist",
        trait_signature |-> ("O" :> R(15, 10)) @@ ("C" :> R(4, 1)),
        pd_modifier |-> R(-2, 100)],
       [name |-> "Balanced Operator",
        trait_signature |-> [t \in Traits |-> R(3, 1)],
        pd_modifier |-> R(0, 100)],
       [name |-> "Driven Achiever",
        trait_signature |-> ("C" :> R(4, 1)) @@ ("E" :> R(45, 10)) @@ ("N" :> R(2, 1)),
        pd_modifier |-> R(-1, 100)],
       [name |-> "Cautious Innovator",
        trait_signature |-> ("O" :> R(4, 1)) @@ ("C" :> R(4, 1)),
        pd_modifier |-> R(-2, 100)],
       [name |-> "Social Planner",
        trait_signature |-> ("A" :> R(4, 1)) @@ ("C" :> R(4, 1)),
        pd_modifier |-> R(-1, 100)],
       [name |-> "Stressed Reactor",
        trait_signature |-> ("N" :> R(45, 10)) @@ ("C" :> R(15, 10)),
        pd_modifier |-> R(6, 100)] >>

----------------------------------------------------------------------------
(* lib/scoring/pd.ts                                                        *)

\* computeRiskContributions without the inversion of the C axis
computeRiskContributions_CDirect(scores) ==
    Ocean(RMul(RSub(scores["O"], R(1, 1)), R(1, 4)),
          RMul(RSub(scores["C"], R(1, 1)), R(1, 4)),
          RMul(RSub(scores["E"], R(1, 1)), R(1, 4)),
          RMul(RSub(scores["A"], R(1, 1)), R(1, 4)),
          RMul(RSub(scores["N"], R(1, 1)), R(1, 4)))

computeRiskContributions(scores) ==
    Ocean(RMul(RSub(scores["O"], R(1, 1)), R(1, 4)),
          RMul(RSub(R(5, 1), scores["C"]), R(1, 4)),
          RMul(RSub(scores["E"], R(1, 1)), R(1, 4)),
          RMul(RSub(scores["A"], R(1, 1)), R(1, 4)),
          RMul(RSub(scores["N"], R(1, 1)), R(1, 4)))

computeWeightedRisk(scores) ==
    LET risks == computeRiskContributions(scores)
    IN  RAdd(RAdd(RAdd(RAdd(RMul(TRAIT_WEIGHTS["C"], risks["C"]),
                            RMul(TRAIT_WEIGHTS["N"], risks["N"])),
                       RMul(TRAIT_WEIGHTS["A"], risks["A"])),
                  RMul(TRAIT_WEIGHTS["O"], risks["O"])),
             RMul(TRAIT_WEIGHTS["E"], risks["E"]))

computePD(scores) ==
    LET weightedRisk == computeWeightedRisk(scores)
    IN  RMin(PD_MAX, RMax(PD_MIN, RAdd(PD_MIN, RMul(weightedRisk, PD_RANGE))))

applyProfileModifier_NoClamp(pd, modifier) == RAdd(pd, modifier)

applyProfileModifier(pd, modifier) ==
    LET modified == RAdd(pd, modifier)
    IN  RMin(PD_MAX, RMax(PD_MIN, modified))

\* getRiskRating with the two thresholds exchanged
getRiskRating_ThresholdsExchanged(pd) ==
    IF RLt(pd, RISK_THRESHOLDS.moderate) THEN "low"
    ELSE IF RLt(pd, RISK_THRESHOLDS.low) THEN "moderate"
    ELSE "elevated"

getRiskRating(pd) ==
    IF RLt(pd, RISK_THRESHOLDS.low) THEN "low"
    ELSE IF RLt(pd, RISK_THRESHOLDS.moderate) THEN "moderate"
    ELSE "elevated"

calculateFullPD(scores, profileModifier) ==
    LET riskContributions == computeRiskContributions(scores)
        weightedRisk == computeWeightedRisk(scores)
        pdRaw == computePD(scores)
        pdModified == applyProfileModifier(pdRaw, profileModifier)
        riskRating == getRiskRating(pdModified)
    IN  [riskContributions |-> riskContributions,
         weightedRisk |-> weightedRisk,
         pdRaw |-> pdRaw,
         pdModified |-> pdModified,
         riskRating |-> riskRating]

----------------------------------------------------------------------------
(* lib/scoring/loan.ts                                                      *)

\* determineLoanDecision with the PD branches tested before the consistency override
determineLoanDecision_PdFirst(pd, riskRating, consistency) ==
    LET consistencyOverall ==
            IF consistency = None THEN R(0, 1) ELSE consistency[1].overall
        branch ==
            IF RLt(pd, LOAN_THRESHOLDS.auto_approve_pd)
            THEN [decision |-> "approved", userFacingDecision |-> "approved"]
            ELSE IF RLt(LOAN_THRESHOLDS.consistency_review_threshold, consistencyOverall)
            THEN [decision |-> "manual_review", userFacingDecision |-> "pending_approval"]
            ELSE IF RLt(pd, LOAN_THRESHOLDS.manual_review_pd)
            THEN [decision |-> "pending_approval", userFacingDecision |-> "pending_approval"]
            ELSE [decision |-> "manual_review", userFacingDecision |-> "pending_approval"]
    IN  [decision |-> branch.decision,
         userFacingDecision |-> branch.userFacingDecision,
         maxAmount |-> LOAN_PARAMS.max_amount[riskRating],
         durationMonths |-> LOAN_PARAMS.duration_months[riskRating],
         aprPercent |-> LOAN_PARAMS.apr_percent[riskRating]]

\* determineLoanDecision with the terms looked up by the tier of the decision
\* branch instead of the riskRating argument
determineLoanDecision_TermsByDecision(pd, riskRating, consistency) ==
    LET consistencyOverall ==
            IF consistency = None THEN R(0, 1) ELSE consistency[1].overall
        branch ==
            IF RLt(LOAN_THRESHOLDS.consistency_review_threshold, consistencyOverall)
            THEN [decision |-> "manual_review", userFacingDecision |-> "pending_approval"]
            ELSE IF RLt(pd, LOAN_THRESHOLDS.auto_approve_pd)
            THEN [decision |-> "approved", userFacingDecision |-> "approved"]
            ELSE IF RLt(pd, LOAN_THRESHOLDS.manual_review_pd)
            THEN [decision |-> "pending_approval", userFacingDecision |-> "pending_approval"]
            ELSE [decision |-> "manual_review", userFacingDecision |-> "pending_approval"]
        tier ==
            CASE branch.decision = "approved" -> "low"
              [] branch.decision = "pending_approval" -> "moderate"
              [] OTHER -> "elevated"
    IN  [decision |-> branch.decision,
         userFacingDecision |-> branch.userFacingDecision,
         maxAmount |-> LOAN_PARAMS.max_amount[tier],
         durationMonths |-> LOAN_PARAMS.duration_months[tier],
         aprPercent |-> LOAN_PARAMS.apr_percent[tier]]

\* determineLoanDecision with the internal decision handed on as the
\* user-facing one
determineLoanDecision_InternalShown(pd, riskRating, consistency) ==
    LET consistencyOverall ==
            IF consistency = None THEN R(0, 1) ELSE consistency[1].overall
        decision ==
            IF RLt(LOAN_THRESHOLDS.consistency_review_threshold, consistencyOverall)
            THEN "manual_review"
            ELSE IF RLt(pd, LOAN_THRESHOLDS.auto_approve_pd) THEN "approved"
            ELSE IF RLt(pd, LOAN_THRESHOLDS.manual_review_pd) THEN "pending_approval"
            ELSE "manual_review"
    IN  [decision |-> decision,
         userFacingDecision |-> decision,
         maxAmount |-> LOAN_PARAMS.max_amount[riskRating],
         durationMonths |-> LOAN_PARAMS.duration_months[riskRating],
         aprPercent |-> LOAN_PARAMS.apr_percent[riskRating]]

\* consistency is nullable; the function reads only its field overall
determineLoanDecision(pd, riskRating, consistency) ==
    LET consistencyOverall ==
            IF consistency = None THEN R(0, 1) ELSE consistency[1].overall
        branch ==
            IF RLt(LOAN_THRESHOLDS.consistency_review_threshold, consistencyOverall)
            THEN [decision |-> "manual_review", userFacingDecision |-> "pending_approval"]
            ELSE IF RLt(pd, LOAN_THRESHOLDS.auto_approve_pd)
            THEN [decision |-> "approved", userFacingDecision |-> "approved"]
            ELSE IF RLt(pd, LOAN_THRESHOLDS.manual_review_pd)
            THEN [decision |-> "pending_approval", userFacingDecision |-> "pending_approval"]
            ELSE [decision |-> "manual_review", userFacingDecision |-> "pending_approval"]
    IN  [decision |-> branch.decision,
         userFacingDecision |-> branch.userFacingDecision,
         maxAmount |-> LOAN_PARAMS.max_amount[riskRating],
         durationMonths |-> LOAN_PARAMS.duration_months[riskRating],
         aprPercent |-> LOAN_PARAMS.apr_percent[riskRating]]

----------------------------------------------------------------------------
(* lib/scoring/ocean.ts                                                     *)

QUESTION_CONFIG ==
    [min_questions |-> 8,
     max_questions |-> 15,
     variance_threshold |-> R(3, 10)]

\* values.reduce((sum, v) => sum + v, 0)
RECURSIVE SumUpTo(_, _)
SumUpTo(values, n) ==
    IF n = 0 THEN <<0, 1>> ELSE RAdd(SumUpTo(values, n - 1), values[n])

RSum(values) == SumUpTo(values, Len(values))

\* traitScores[t] of computeTraitAverages / computeTraitVariances: the scores
\* of the responses whose trait is t, in list order
TraitScoresOf(responseList, t) ==
    LET sel == SelectSeq(responseList, LAMBDA r : r.trait = t)
    IN  [i \in 1..Len(sel) |-> sel[i].score]

\* an average that weighs each later value twice the average so far
RECURSIVE RecencyUpTo(_, _)
RecencyUpTo(values, n) ==
    IF n = 1 THEN values[1]
    ELSE RMul(RAdd(RecencyUpTo(values, n - 1), RMul(R(2, 1), values[n])), R(1, 3))

average_RecencyWeighted(values, defaultValue) ==
    IF Len(values) = 0 THEN defaultValue ELSE RecencyUpTo(values, Len(values))

average(values, defaultValue) ==
    IF Len(values) = 0 THEN defaultValue
    ELSE RMul(RSum(values), R(1, Len(values)))

\* variance with the sample divisor n - 1
variance_SampleDivisor(values) ==
    IF Len(values) < 2 THEN R(1, 1)
    ELSE LET mean == RMul(RSum(values), R(1, Len(values)))
             squaredDiffs ==
                 [i \in 1..Len(values) |->
                     RMul(RSub(values[i], mean), RSub(values[i], mean))]
         IN  RMul(RSum(squaredDiffs), R(1, Len(values) - 1))

variance(values) ==
    IF Len(values) < 2 THEN R(1, 1)
    ELSE LET mean == RMul(RSum(values), R(1, Len(values)))
             squaredDiffs ==
                 [i \in 1..Len(values) |->
                     RMul(RSub(values[i], mean), RSub(values[i], mean))]
         IN  RMul(RSum(squaredDiffs), R(1, Len(values)))

computeTraitAverages(responseList) ==
    Ocean(average(TraitScoresOf(responseList, "O"), R(3, 1)),
          average(TraitScoresOf(responseList, "C"), R(3, 1)),
          average(TraitScoresOf(responseList, "E"), R(3, 1)),
          average(TraitScoresOf(responseList, "A"), R(3, 1)),
          average(TraitScoresOf(responseList, "N"), R(3, 1)))

computeTraitVariances(responseList) ==
    Ocean(variance(TraitScoresOf(responseList, "O")),
          variance(TraitScoresOf(responseList, "C")),
          variance(TraitScoresOf(responseList, "E")),
          variance(TraitScoresOf(responseList, "A")),
          variance(TraitScoresOf(responseList, "N")))

\* isAssessmentComplete with the ceiling tested by equality
isAssessmentComplete_ExactCeiling(variances, questionCount, varianceThreshold, minQuestions, maxQuestions) ==
    IF questionCount = maxQuestions THEN TRUE
    ELSE IF questionCount < minQuestions THEN FALSE
    ELSE \A t \in Traits : RLt(variances[t], varianceThreshold)

\* isAssessmentComplete without the ceiling on the question count
isAssessmentComplete_NoCeiling(variances, questionCount, varianceThreshold, minQuestions, maxQuestions) ==
    IF questionCount < minQuestions THEN FALSE
    ELSE \A t \in Traits : RLt(variances[t], varianceThreshold)

isAssessmentComplete(variances, questionCount, varianceThreshold, minQuestions, maxQuestions) ==
    IF questionCount >= maxQuestions THEN TRUE
    ELSE IF questionCount < minQuestions THEN FALSE
    ELSE \A t \in Traits : RLt(variances[t], varianceThreshold)

\* normalizeScore with the range taken as 0..5
normalizeScore_RangeFive(score) ==
    RMax(R(0, 1), RMin(R(1, 1), RMul(RSub(score, R(1, 1)), R(1, 5))))

normalizeScore(score) ==
    RMax(R(0, 1), RMin(R(1, 1), RMul(RSub(score, R(1, 1)), R(1, 4))))

denormalizeScore(normalized) == RAdd(R(1, 1), RMul(normalized, R(4, 1)))

\* the loop of selectHighestVarianceTrait over traits[k..], with the maximum
\* so far
RECURSIVE HighestFrom(_, _, _, _, _)
HighestFrom(variances, traits, k, maxVariance, maxTrait) ==
    IF k > Len(traits) THEN maxTrait
    ELSE IF RLt(maxVariance, variances[traits[k]])
    THEN HighestFrom(variances, traits, k + 1, variances[traits[k]], traits[k])
    ELSE HighestFrom(variances, traits, k + 1, maxVariance, maxTrait)

selectHighestVarianceTrait(variances) ==
    HighestFrom(variances, <<"O", "C", "E", "A", "N">>, 1, <<-1, 1>>, "C")

----------------------------------------------------------------------------
(* selectOptimalQuestion of lib/utils                                       *)

\* previousTypes.includes(type)
Includes(list, x) == \E j \in 1..Len(list) : list[j] = x

\* the score of a candidate with the bonus given to every candidate
CandidateScore_BonusAlways(candidate, traitVariances, previousTypes) ==
    RAdd(traitVariances[candidate.trait], R(2, 10))

\* the score of a candidate: the variance of its trait, plus 0.2 for a
\* question type not used before
CandidateScore(candidate, traitVariances, previousTypes) ==
    IF ~Includes(previousTypes, candidate.question_type)
    THEN RAdd(traitVariances[candidate.trait], R(2, 10))
    ELSE traitVariances[candidate.trait]

\* the loop from candidate i on (i counts from 0 as in the code)
RECURSIVE SelectFrom(_, _, _, _, _, _)
SelectFrom(candidates, traitVariances, previousTypes, i, bestIndex, bestScore) ==
    IF i >= Len(candidates) THEN bestIndex
    ELSE LET score == CandidateScore(candidates[i + 1], traitVariances, previousTypes)
         IN  IF RLt(bestScore, score)
             THEN SelectFrom(candidates, traitVariances, previousTypes, i + 1, i, score)
             ELSE SelectFrom(candidates, traitVariances, previousTypes, i + 1,
                             bestIndex, bestScore)

selectOptimalQuestion(candidates, traitVariances, previousTypes) ==
    SelectFrom(candidates, traitVariances, previousTypes, 0, 0, <<-1, 0>>)

----------------------------------------------------------------------------
(* lib/scoring/profiles.ts                                                  *)

\* The square of the Euclidean distance over the traits the profile defines.
\* The code returns its square root; matchMoneyProfile only compares
\* distances, and the square root is increasing, so the order is the same.
computeProfileDistance(scores, profile) ==
    LET traits == DOMAIN profile.trait_signature
        RECURSIVE SumSq(_)
        SumSq(ts) ==
            IF ts = {} THEN <<0, 1>>
            ELSE LET t == CHOOSE x \in ts : TRUE
                     diff == RSub(scores[t], profile.trait_signature[t])
                 IN  RAdd(SumSq(ts \ {t}), RMul(diff, diff))
    IN  SumSq(traits)

\* first profile of the catalog at minimal distance (the loop replaces the
\* best only on a strictly smaller distance)
\* the loop of matchMoneyProfile from catalog entry i on: best is the index
\* of bestProfile (0 before the first entry: bestDistance = Infinity)
RECURSIVE MatchLoop(_, _, _, _)
MatchLoop(scores, i, best, bestDistance) ==
    IF i > Len(MONEY_PROFILES)
    THEN [profile |-> MONEY_PROFILES[IF best = 0 THEN 1 ELSE best],
          distance |-> bestDistance]
    ELSE LET distance == computeProfileDistance(scores, MONEY_PROFILES[i])
         IN  IF best = 0 \/ RLt(distance, bestDistance)
             THEN MatchLoop(scores, i + 1, i, distance)
             ELSE MatchLoop(scores, i + 1, best, bestDistance)

matchMoneyProfile(scores) == MatchLoop(scores, 1, 0, <<0, 1>>)

----------------------------------------------------------------------------
(* lib/scoring/blending.ts                                                  *)

BLENDING_WEIGHTS ==
    [t \in Traits |->
        CASE t = "C" -> [phase1 |-> R(55, 100), phase2 |-> R(45, 100)]
          [] t = "N" -> [phase1 |-> R(50, 100), phase2 |-> R(50, 100)]
          [] t = "A" -> [phase1 |-> R(60, 100), phase2 |-> R(40, 100)]
          [] t = "O" -> [phase1 |-> R(45, 100), phase2 |-> R(55, 100)]
          [] t = "E" -> [phase1 |-> R(55, 100), phase2 |-> R(45, 100)]]

CONSISTENCY_THRESHOLDS ==
    [highly_consistent |-> R(20, 100),
     normal_variance |-> R(40, 100),
     moderate_discrepancy |-> R(60, 100)]

\* blendScores with the two weights of each trait exchanged
blendScores_WeightsExchanged(phase1Scores, phase2Scores) ==
    LET blended(t) ==
            LET weights == BLENDING_WEIGHTS[t]
                phase1Normalized == normalizeScore(phase1Scores[t])
                blendedNormalized ==
                    RAdd(RMul(weights.phase2, phase1Normalized),
                         RMul(weights.phase1, phase2Scores[t]))
            IN  denormalizeScore(blendedNormalized)
    IN  Ocean(blended("O"), blended("C"), blended("E"), blended("A"), blended("N"))

blendScores(phase1Scores, phase2Scores) ==
    LET blended(t) ==
            LET weights == BLENDING_WEIGHTS[t]
                phase1Normalized == normalizeScore(phase1Scores[t])
                blendedNormalized ==
                    RAdd(RMul(weights.phase1, phase1Normalized),
                         RMul(weights.phase2, phase2Scores[t]))
            IN  denormalizeScore(blendedNormalized)
    IN  Ocean(blended("O"), blended("C"), blended("E"), blended("A"), blended("N"))

\* getConsistencyFlag with the upper bounds of the bands included
getConsistencyFlag_ClosedBands(overall) ==
    IF RLe(overall, CONSISTENCY_THRESHOLDS.highly_consistent) THEN "highly_consistent"
    ELSE IF RLe(overall, CONSISTENCY_THRESHOLDS.normal_variance) THEN "normal_variance"
    ELSE IF RLe(overall, CONSISTENCY_THRESHOLDS.moderate_discrepancy) THEN "moderate_discrepancy"
    ELSE "high_discrepancy"

getConsistencyFlag(overall) ==
    IF RLt(overall, CONSISTENCY_THRESHOLDS.highly_consistent) THEN "highly_consistent"
    ELSE IF RLt(overall, CONSISTENCY_THRESHOLDS.normal_variance) THEN "normal_variance"
    ELSE IF RLt(overall, CONSISTENCY_THRESHOLDS.moderate_discrepancy) THEN "moderate_discrepancy"
    ELSE "high_discrepancy"

\* admin/components/charts/ConsistencyPanel.tsx: the admin panel's own
\* classification of a displayed value
getFlag(value) ==
    IF RLt(value, R(20, 100)) THEN "highly_consistent"
    ELSE IF RLt(value, R(40, 100)) THEN "normal_variance"
    ELSE IF RLt(value, R(60, 100)) THEN "moderate_discrepancy"
    ELSE "high_discrepancy"

computeConsistencyIndex(phase1Scores, phase2Scores) ==
    LET diff(t) == RAbs(RSub(normalizeScore(phase1Scores[t]), phase2Scores[t]))
        perTrait == Ocean(diff("O"), diff("C"), diff("E"), diff("A"), diff("N"))
        term(t) == RMul(TRAIT_WEIGHTS[t], perTrait[t])
        overall == RAdd(RAdd(RAdd(RAdd(term("O"), term("C")), term("E")), term("A")), term("N"))
    IN  [perTrait |-> perTrait, overall |-> overall, flag |-> getConsistencyFlag(overall)]

----------------------------------------------------------------------------
(* Number operations of lib/scoring/behavioral.ts, where a divisor may be   *)
(* zero.  A number is <<n, d>> with d > 0, or a non-finite value with d = 0: *)
(* NaN, Infinity, -Infinity.                                                *)

NaN == <<0, 0>>
Infinity == <<1, 0>>

Finite(x) == x[2] # 0
Sign(x) == IF x[1] > 0 THEN 1 ELSE IF x[1] < 0 THEN -1 ELSE 0

JAdd(x, y) ==
    IF Finite(x) /\ Finite(y) THEN RAdd(x, y)
    ELSE IF x = NaN \/ y = NaN THEN NaN
    ELSE IF Finite(x) THEN y
    ELSE IF Finite(y) THEN x
    ELSE IF x = y THEN x ELSE NaN

JSub(x, y) == JAdd(x, <<-y[1], y[2]>>)

JMul(x, y) ==
    IF Finite(x) /\ Finite(y) THEN RMul(x, y)
    ELSE IF x = NaN \/ y = NaN \/ Sign(x) = 0 \/ Sign(y) = 0 THEN NaN
    ELSE <<Sign(x) * Sign(y), 0>>

\* x / y: a zero divisor gives NaN (0 / 0) or an infinity
JDiv(x, y) ==
    IF Finite(x) /\ Finite(y)
    THEN IF y[1] = 0 THEN <<Sign(x), 0>>
         ELSE R(x[1] * y[2] * Sign(y), x[2] * Abs(y[1]))
    ELSE IF x = NaN \/ y = NaN THEN NaN
    ELSE IF Finite(x) THEN <<0, 1>>
    ELSE IF Finite(y) THEN <<Sign(x) * (IF Sign(y) < 0 THEN -1 ELSE 1), 0>>
    ELSE NaN

\* Math.min, Math.max: NaN if an argument is NaN
JMin(x, y) == IF x = NaN \/ y = NaN THEN NaN ELSE RMin(x, y)
JMax(x, y) == IF x = NaN \/ y = NaN THEN NaN ELSE RMax(x, y)

\* largest r in lo..hi with r * r <= n
RECURSIVE ISqrtIn(_, _, _)
ISqrtIn(n, lo, hi) ==
    IF lo >= hi THEN lo
    ELSE LET mid == (lo + hi + 1) \div 2
         IN  IF mid * mid <= n THEN ISqrtIn(n, mid, hi) ELSE ISqrtIn(n, lo, mid - 1)

ISqrt(n) == ISqrtIn(n, 0, IF n < 46340 THEN n ELSE 46340)

SqrtScale == 100

\* Math.sqrt: the exact root where it is rational, else the root cut to a
\* multiple of 1/SqrtScale
JSqrt(x) ==
    IF x = NaN \/ x[1] < 0 THEN NaN
    ELSE IF ~Finite(x) THEN x
    ELSE LET a == ISqrt(x[1])
             b == ISqrt(x[2])
         IN  IF a * a = x[1] /\ b * b = x[2] THEN R(a, b)
             ELSE R(ISqrt((x[1] * SqrtScale * SqrtScale) \div x[2]), SqrtScale)

\* values.reduce((s, v) => s + v, 0)
RECURSIVE JSumUpTo(_, _)
JSumUpTo(values, n) ==
    IF n = 0 THEN <<0, 1>> ELSE JAdd(JSumUpTo(values, n - 1), values[n])

JSum(values) == JSumUpTo(values, Len(values))

\* values.length as a number
Count(values) == <<Len(values), 1>>

----------------------------------------------------------------------------
(* lib/scoring/behavioral.ts                                                *)

SUPPLY_RUN_CONFIG == [max_cargo |-> 7]

clamp01(value) == JMax(<<0, 1>>, JMin(<<1, 1>>, value))

\* computeBartScore over all loads, tipped ones included
computeBartScore_AllLoads(cargoLoads) ==
    IF Len(cargoLoads) = 0 THEN R(1, 2)
    ELSE LET avgCrates ==
                 JDiv(JSum([i \in 1..Len(cargoLoads) |-> cargoLoads[i].crates]),
                      Count(cargoLoads))
         IN  clamp01(JDiv(avgCrates, <<SUPPLY_RUN_CONFIG.max_cargo, 1>>))

computeBartScore(cargoLoads) ==
    LET successful == SelectSeq(cargoLoads, LAMBDA c : ~c.tipped)
    IN  IF Len(successful) = 0 THEN R(1, 2)
        ELSE LET avgCrates ==
                     JDiv(JSum([i \in 1..Len(successful) |-> successful[i].crates]),
                          Count(successful))
             IN  clamp01(JDiv(avgCrates, <<SUPPLY_RUN_CONFIG.max_cargo, 1>>))

computePathEfficiency(paths) ==
    IF Len(paths) = 0 THEN R(1, 2)
    ELSE LET efficiencies ==
                 [i \in 1..Len(paths) |->
                     IF RLt(<<0, 1>>, paths[i].actual_dist)
                     THEN JMin(<<1, 1>>, JDiv(paths[i].optimal_dist, paths[i].actual_dist))
                     ELSE <<0, 1>>]
         IN  JDiv(JSum(efficiencies), Count(efficiencies))

\* the intervals between consecutive banking events
BankingIntervals(events) ==
    [i \in 1..(Len(events) - 1) |-> JSub(events[i + 1].timestamp_ms, events[i].timestamp_ms)]

\* the population standard deviation as the code computes it
StdDev(values, mean) ==
    JSqrt(JDiv(JSum([i \in 1..Len(values) |->
                        JMul(JSub(values[i], mean), JSub(values[i], mean))]),
               Count(values)))

\* computeBankingRegularity without the test for a zero mean interval
computeBankingRegularity_NoZeroMeanTest(events, totalDuration) ==
    IF Len(events) < 2 THEN (IF Len(events) = 1 THEN R(1, 2) ELSE R(1, 5))
    ELSE LET intervals == BankingIntervals(events)
             mean == JDiv(JSum(intervals), Count(intervals))
             std == StdDev(intervals, mean)
             cv == JDiv(std, mean)
         IN  clamp01(JSub(<<1, 1>>, JDiv(cv, <<2, 1>>)))

computeBankingRegularity(events, totalDuration) ==
    IF Len(events) < 2 THEN (IF Len(events) = 1 THEN R(1, 2) ELSE R(1, 5))
    ELSE LET intervals == BankingIntervals(events)
             mean == JDiv(JSum(intervals), Count(intervals))
             std == StdDev(intervals, mean)
             cv == JDiv(std, mean)
         IN  IF mean = <<0, 1>> THEN R(1, 2)
             ELSE clamp01(JSub(<<1, 1>>, JDiv(cv, <<2, 1>>)))

computeTapDeliberation(velocities) ==
    IF Len(velocities) = 0 THEN R(1, 2)
    ELSE LET avgInterval == JDiv(JSum(velocities), Count(velocities))
         IN  IF RLt(avgInterval, <<200, 1>>) THEN R(2, 10)
             ELSE IF RLt(avgInterval, <<400, 1>>) THEN R(5, 10)
             ELSE IF RLt(avgInterval, <<800, 1>>) THEN R(9, 10)
             ELSE IF RLt(avgInterval, <<1200, 1>>) THEN R(7, 10)
             ELSE R(4, 10)

computePostLossChange(lossEvents, velocities) ==
    IF Len(lossEvents) = 0 THEN R(3, 10)
    ELSE LET avgDelta ==
                 JDiv(JSum([i \in 1..Len(lossEvents) |-> RAbs(lossEvents[i].behavior_delta)]),
                      Count(lossEvents))
         IN  clamp01(avgDelta)

computeHesitationPattern(velocities) ==
    IF Len(velocities) < 3 THEN R(1, 2)
    ELSE LET mean == JDiv(JSum(velocities), Count(velocities))
             std == StdDev(velocities, mean)
             cv == IF RLt(<<0, 1>>, mean) THEN JDiv(std, mean) ELSE <<0, 1>>
         IN  clamp01(JDiv(cv, R(3, 2)))

\* computeSharingRate counting every accepted event, offered or not
computeSharingRate_AnyAccepted(events) ==
    IF Len(events) = 0 THEN R(1, 2)
    ELSE LET accepted == Len(SelectSeq(events, LAMBDA e : e.accepted))
             offered == Len(SelectSeq(events, LAMBDA e : e.offered))
         IN  IF offered > 0 THEN JDiv(<<accepted, 1>>, <<offered, 1>>) ELSE R(1, 2)

computeSharingRate(events) ==
    IF Len(events) = 0 THEN R(1, 2)
    ELSE LET accepted == Len(SelectSeq(events, LAMBDA e : e.offered /\ e.accepted))
             offered == Len(SelectSeq(events, LAMBDA e : e.offered))
         IN  IF offered > 0 THEN JDiv(<<accepted, 1>>, <<offered, 1>>) ELSE R(1, 2)

computeTipRate(events) ==
    IF Len(events) = 0 THEN R(1, 2)
    ELSE LET avgSplit ==
                 JDiv(JSum([i \in 1..Len(events) |-> events[i].reward_split]), Count(events))
         IN  clamp01(avgSplit)

computeHelpAcceptance(events) ==
    IF Len(events) = 0 THEN R(1, 2)
    ELSE LET helpOffered == SelectSeq(events, LAMBDA e : e.offered)
         IN  IF Len(helpOffered) = 0 THEN R(1, 2)
             ELSE JDiv(<<Len(SelectSeq(helpOffered, LAMBDA e : e.accepted)), 1>>,
                       Count(helpOffered))

computeShortcutUsage(paths) ==
    IF Len(paths) = 0 THEN R(1, 2)
    ELSE LET shortcuts ==
                 Len(SelectSeq(paths,
                        LAMBDA q : RLt(q.actual_dist, JMul(q.optimal_dist, R(95, 100)))))
         IN  clamp01(JDiv(<<shortcuts, 1>>, Count(paths)))

computeMultiOrderRate(counts) ==
    IF Len(counts) = 0 THEN R(1, 2)
    ELSE JDiv(<<Len(SelectSeq(counts, LAMBDA c : RLt(<<1, 1>>, c))), 1>>, Count(counts))

\* a * x + b * y + c * z
Weighted3(a, x, b, y, c, z) == JAdd(JAdd(JMul(a, x), JMul(b, y)), JMul(c, z))

computeBehavioralC(gameSignals) ==
    LET pathEfficiency == computePathEfficiency(gameSignals.path_records)
        bankingRegularity ==
            computeBankingRegularity(gameSignals.banking_events, gameSignals.duration_ms)
        tapDeliberation == computeTapDeliberation(gameSignals.tap_velocities)
    IN  clamp01(Weighted3(R(40, 100), pathEfficiency, R(35, 100), bankingRegularity,
                          R(25, 100), tapDeliberation))

computeBehavioralN(gameSignals) ==
    LET postLossChange == computePostLossChange(gameSignals.loss_events, gameSignals.tap_velocities)
        hesitationPattern == computeHesitationPattern(gameSignals.tap_velocities)
        inverseBart == JSub(<<1, 1>>, computeBartScore(gameSignals.cargo_loads))
    IN  clamp01(Weighted3(R(40, 100), postLossChange, R(30, 100), hesitationPattern,
                          R(30, 100), inverseBart))

computeBehavioralA(gameSignals) ==
    LET sharingRate == computeSharingRate(gameSignals.sharing_events)
        tipRate == computeTipRate(gameSignals.sharing_events)
        helpAcceptance == computeHelpAcceptance(gameSignals.sharing_events)
    IN  clamp01(Weighted3(R(40, 100), sharingRate, R(30, 100), tipRate,
                          R(30, 100), helpAcceptance))

computeBehavioralO(gameSignals) ==
    LET explorationRate ==
            IF RLt(<<0, 1>>, gameSignals.total_tiles)
            THEN JDiv(gameSignals.exploration_tiles, gameSignals.total_tiles)
            ELSE <<0, 1>>
        shortcutUsage == computeShortcutUsage(gameSignals.path_records)
        bartScore == computeBartScore(gameSignals.cargo_loads)
    IN  clamp01(Weighted3(R(35, 100), explorationRate, R(30, 100), shortcutUsage,
                          R(35, 100), bartScore))

computeBehavioralE(gameSignals) ==
    LET totalTime == JAdd(gameSignals.crowd_time_ms, gameSignals.quiet_time_ms)
        crowdAffinity ==
            IF RLt(<<0, 1>>, totalTime) THEN JDiv(gameSignals.crowd_time_ms, totalTime)
            ELSE R(1, 2)
        multiOrderRate == computeMultiOrderRate(gameSignals.multi_order_counts)
    IN  clamp01(JAdd(JMul(R(55, 100), crowdAffinity), JMul(R(45, 100), multiOrderRate)))

computeAllBehavioralScores(gameSignals) ==
    Ocean(computeBehavioralO(gameSignals),
          computeBehavioralC(gameSignals),
          computeBehavioralE(gameSignals),
          computeBehavioralA(gameSignals),
          computeBehavioralN(gameSignals))

----------------------------------------------------------------------------
(* The database as the handlers use it.  Every query of the handlers below  *)
(* filters by the session id (or by the id of one of its assessments), and  *)
(* no row is shared between sessions, so the model follows one session.     *)

\* supabase .single(): the row when exactly one row matches, else null
Single(rows) == IF Len(rows) = 1 THEN Some(rows[1]) ELSE None

\* supabase .order('question_index', { ascending: true }): stable insertion sort
RECURSIVE OrderByQuestionIndex(_)
OrderByQuestionIndex(rows) ==
    IF Len(rows) <= 1 THEN rows
    ELSE LET init == OrderByQuestionIndex(SubSeq(rows, 1, Len(rows) - 1))
             last == rows[Len(rows)]
             before == SelectSeq(init, LAMBDA r : r.question_index <= last.question_index)
             after == SelectSeq(init, LAMBDA r : r.question_index > last.question_index)
         IN  before \o <<last>> \o after

\* the message field of a success body that carries a decision
UserMessage(userFacingDecision) ==
    IF userFacingDecision = "approved"
    THEN "Congratulations! Your assessment is complete. You will receive details shortly."
    ELSE "Thank you for completing the assessment. Our team is reviewing your profile and will be in touch within 24-48 hours."

\* the HTTP reply of a handler.  decision is the decision field of a success
\* body (null when the body has none); computed records the internal decision
\* the same call computed (null when it computed none); error is the error
\* field of an error body and message the message field of a success body
\* ("" when the body has none).
Reply(handler, status, decision, computed) ==
    Some([handler |-> handler, status |-> status, phase1_complete |-> FALSE,
          decision |-> decision, computed |-> computed, error |-> "",
          message |-> IF decision = None THEN "" ELSE UserMessage(decision[1])])

\* res.status(status).json({ error })
ErrorReply(handler, status, error) ==
    Some([handler |-> handler, status |-> status, phase1_complete |-> FALSE,
          decision |-> None, computed |-> None, error |-> error, message |-> ""])

\* the success reply of /api/game/next, whose body carries phase1_complete
NextReply(status, phase1_complete) ==
    Some([handler |-> "next", status |-> status, phase1_complete |-> phase1_complete,
          decision |-> None, computed |-> None, error |-> "", message |-> ""])

\* the loan_recommendations.decision value written for an internal decision
RecDecision(decision) ==
    IF decision = "approved" THEN "approve"
    ELSE IF decision = "declined" THEN "decline"
    ELSE "manual_review"

----------------------------------------------------------------------------
(* POST /api/game/start                                                     *)

HandleStart ==
    /\ session = None
    /\ session' = Some([status |-> "in_progress"])
    /\ reply' = Reply("start", 200, None, None)
    /\ UNCHANGED <<responses, assessments, loanRecs, signals, genFailures>>

----------------------------------------------------------------------------
(* POST /api/game/next                                                      *)

\* generationOk: whether the question generator returns a parsable,
\* non-empty batch (it is consulted only when Phase 1 is not complete)
HandleNext(questionResponse, generationOk) ==
    IF session = None
    THEN /\ reply' = ErrorReply("next", 404, "Session not found")
         /\ UNCHANGED <<storeVars, genFailures>>
    ELSE IF session[1].status # "in_progress"
    THEN /\ reply' = ErrorReply("next", 400, "Session is not in progress")
         /\ UNCHANGED <<storeVars, genFailures>>
    ELSE LET inserted == Append(responses, questionResponse)
             allResponses == OrderByQuestionIndex(inserted)
             traitVariances == computeTraitVariances(allResponses)
             questionCount == Len(allResponses)
             complete == isAssessmentComplete(traitVariances, questionCount,
                                              QUESTION_CONFIG.variance_threshold,
                                              QUESTION_CONFIG.min_questions,
                                              QUESTION_CONFIG.max_questions)
         IN  /\ responses' = inserted
             /\ UNCHANGED <<assessments, loanRecs, signals>>
             /\ IF complete
                THEN /\ session' = Some([status |-> "phase1_complete"])
                     /\ reply' = NextReply(200, TRUE)
                     /\ UNCHANGED genFailures
                ELSE IF generationOk
                THEN /\ reply' = NextReply(200, FALSE)
                     /\ UNCHANGED <<session, genFailures>>
                ELSE /\ reply' = ErrorReply("next", 500, "Failed to parse Claude API response")
                     /\ genFailures' = genFailures + 1
                     /\ UNCHANGED session

----------------------------------------------------------------------------
(* POST /api/game/complete                                                  *)

\* the handler goes on whatever the status of the session
completeAccepts_AnyStatus(status) == TRUE

\* the statuses with which the handler goes on: the negation of
\* session.status !== 'phase1_complete' && session.status !== 'in_progress'
completeAccepts(status) == status = "phase1_complete" \/ status = "in_progress"

HandleComplete ==
    IF session = None
    THEN /\ reply' = ErrorReply("complete", 404, "Session not found")
         /\ UNCHANGED <<storeVars, genFailures>>
    ELSE IF ~completeAccepts(session[1].status)
    THEN /\ reply' = ErrorReply("complete", 400, "Session status is not phase1_complete")
         /\ UNCHANGED <<storeVars, genFailures>>
    ELSE IF Len(responses) = 0
    THEN /\ reply' = ErrorReply("complete", 400, "No responses found for this session")
         /\ UNCHANGED <<storeVars, genFailures>>
    ELSE \* each const of the handler is bound once to its value
         \E traitScores \in {computeTraitAverages(OrderByQuestionIndex(responses))} :
         \E profile \in {matchMoneyProfile(traitScores).profile} :
         \E pdResult \in {calculateFullPD(traitScores, profile.pd_modifier)} :
         \E loanDecision \in {determineLoanDecision(pdResult.pdModified,
                                                    pdResult.riskRating, None)} :
         \E assessment \in
                {[id |-> Len(assessments) + 1,
                  trait_scores |-> traitScores,
                  pd_modified |-> pdResult.pdModified,
                  risk_rating |-> pdResult.riskRating,
                  money_profile |-> profile.name,
                  decision |-> loanDecision.decision,
                  blended_trait_scores |-> None,
                  consistency_index |-> None]} :
             /\ assessments' = Append(assessments, assessment)
             /\ loanRecs' = Append(loanRecs,
                    [assessment_id |-> assessment.id,
                     decision |-> RecDecision(loanDecision.decision),
                     max_amount |-> loanDecision.maxAmount,
                     duration_months |-> loanDecision.durationMonths,
                     apr_percent |-> loanDecision.aprPercent,
                     admin_override |-> FALSE])
             /\ session' = Some([status |-> "phase1_complete"])
             /\ reply' = Reply("complete", 200, Some(loanDecision.userFacingDecision),
                               Some(loanDecision.decision))
             /\ UNCHANGED <<responses, signals, genFailures>>

----------------------------------------------------------------------------
(* GET /api/game/behavioral-config                                          *)

HandleBehavioralConfig ==
    /\ reply' = IF session = None
                THEN ErrorReply("behavioral-config", 404, "Session not found")
                ELSE IF session[1].status # "phase1_complete"
                THEN ErrorReply("behavioral-config", 400,
                                "Phase 1 must be completed before starting Phase 2")
                ELSE Reply("behavioral-config", 200, None, None)
    /\ UNCHANGED <<storeVars, genFailures>>

----------------------------------------------------------------------------
(* POST /api/game/behavioral-signals: stores the telemetry of the finished  *)
(* Supply Run with its behavioural scores and marks Phase 2 complete.       *)

HandleBehavioralSignals(behavioralScores) ==
    IF session = None
    THEN /\ reply' = ErrorReply("behavioral-signals", 404, "Session not found")
         /\ UNCHANGED <<storeVars, genFailures>>
    ELSE IF session[1].status # "phase1_complete"
    THEN /\ reply' = ErrorReply("behavioral-signals", 400, "Phase 1 must be completed")
         /\ UNCHANGED <<storeVars, genFailures>>
    ELSE /\ signals' = Append(signals, [id |-> Len(signals) + 1,
                                        behavioral_scores |-> behavioralScores])
         /\ session' = Some([status |-> "phase2_complete"])
         /\ reply' = Reply("behavioral-signals", 200, None, None)
         /\ UNCHANGED <<responses, assessments, loanRecs, genFailures>>

----------------------------------------------------------------------------
(* POST /api/game/behavioral-score                                          *)

\* the early returns of the handler: the status it answers with, given the
\* session row, the assessment row and the behavioural-signal row it fetched
\* (each null when the query returned no single row)
behavioralScoreStatus_NoStatusCheck(sess, assessment, behavioralSignal) ==
    IF sess = None THEN 404
    ELSE IF assessment = None THEN 404
    ELSE IF behavioralSignal = None THEN 404
    ELSE 200

behavioralScoreStatus(sess, assessment, behavioralSignal) ==
    IF sess = None THEN 404
    ELSE IF sess[1].status # "phase2_complete" THEN 400
    ELSE IF assessment = None THEN 404
    ELSE IF behavioralSignal = None THEN 404
    ELSE 200

\* the error field of the body of each early return
behavioralScoreError(sess, assessment, behavioralSignal) ==
    IF sess = None THEN "Session not found"
    ELSE IF sess[1].status # "phase2_complete"
    THEN "Phase 2 must be completed before computing blended score"
    ELSE IF assessment = None THEN "Phase 1 assessment not found"
    ELSE "Behavioral signals not found"

HandleBehavioralScore ==
    \E fetchedAssessment \in {Single(assessments)} :
    \* .order('created_at', { ascending: false }).limit(1).single()
    \E fetchedSignal \in {IF Len(signals) = 0 THEN None ELSE Some(signals[Len(signals)])} :
    \E status \in {behavioralScoreStatus(session, fetchedAssessment, fetchedSignal)} :
        IF status # 200
        THEN /\ reply' = ErrorReply("behavioral-score", status,
                        behavioralScoreError(session, fetchedAssessment, fetchedSignal))
             /\ UNCHANGED <<storeVars, genFailures>>
        ELSE \E assessment \in {fetchedAssessment[1]} :
             \E phase1Scores \in {assessment.trait_scores} :
             \E phase2Scores \in {fetchedSignal[1].behavioral_scores} :
             \E blendedScores \in {blendScores(phase1Scores, phase2Scores)} :
             \E consistency \in {computeConsistencyIndex(phase1Scores, phase2Scores)} :
             \E profile \in {matchMoneyProfile(blendedScores).profile} :
             \E pdResult \in {calculateFullPD(blendedScores, profile.pd_modifier)} :
             \E loanDecision \in {determineLoanDecision(pdResult.pdModified,
                                                        pdResult.riskRating,
                                                        Some(consistency))} :
                 /\ assessments' =
                        [i \in 1..Len(assessments) |->
                            IF assessments[i].id = assessment.id
                            THEN [assessments[i] EXCEPT
                                     !.blended_trait_scores = Some(blendedScores),
                                     !.consistency_index = Some(consistency),
                                     !.pd_modified = pdResult.pdModified,
                                     !.risk_rating = pdResult.riskRating,
                                     !.money_profile = profile.name,
                                     !.decision = loanDecision.decision]
                            ELSE assessments[i]]
                 /\ loanRecs' =
                        [i \in 1..Len(loanRecs) |->
                            IF loanRecs[i].assessment_id = assessment.id
                            THEN [loanRecs[i] EXCEPT
                                     !.decision = RecDecision(loanDecision.decision),
                                     !.max_amount = loanDecision.maxAmount,
                                     !.duration_months = loanDecision.durationMonths,
                                     !.apr_percent = loanDecision.aprPercent]
                            ELSE loanRecs[i]]
                 /\ session' = Some([status |-> "completed"])
                 /\ reply' = Reply("behavioral-score", 200,
                                   Some(loanDecision.userFacingDecision),
                                   Some(loanDecision.decision))
                 /\ UNCHANGED <<responses, signals, genFailures>>

----------------------------------------------------------------------------
(* POST /api/admin/override, called by an authorized admin                  *)

\* loan_adjustment is nullable; a present adjustment sets all three terms
HandleAdminOverride(assessment_id, decision, loan_adjustment) ==
    LET found == Single(SelectSeq(assessments, LAMBDA a : a.id = assessment_id))
    IN  IF found = None
        THEN /\ reply' = ErrorReply("override", 404, "Assessment not found")
             /\ UNCHANGED <<storeVars, genFailures>>
        ELSE LET assessment == found[1]
                 assessmentDecision ==
                     IF decision = "approve" THEN "approved"
                     ELSE IF decision = "decline" THEN "declined"
                     ELSE "manual_review"
                 riskRating == assessment.risk_rating
                 loanUpdate ==
                     [decision |-> decision,
                      admin_override |-> TRUE,
                      max_amount |->
                          IF loan_adjustment = None
                          THEN LOAN_PARAMS.max_amount[riskRating]
                          ELSE loan_adjustment[1].max_amount,
                      duration_months |->
                          IF loan_adjustment = None
                          THEN LOAN_PARAMS.duration_months[riskRating]
                          ELSE loan_adjustment[1].duration_months,
                      apr_percent |->
                          IF loan_adjustment = None
                          THEN LOAN_PARAMS.apr_percent[riskRating]
                          ELSE loan_adjustment[1].apr_percent]
                 existingRec ==
                     Single(SelectSeq(loanRecs, LAMBDA r : r.assessment_id = assessment_id))
             IN  /\ assessments' =
                        [i \in 1..Len(assessments) |->
                            IF assessments[i].id = assessment_id
                            THEN [assessments[i] EXCEPT !.decision = assessmentDecision]
                            ELSE assessments[i]]
                 /\ loanRecs' =
                        IF existingRec # None
                        THEN [i \in 1..Len(loanRecs) |->
                                 IF loanRecs[i].assessment_id = assessment_id
                                 THEN [assessment_id |-> assessment_id] @@ loanUpdate
                                 ELSE loanRecs[i]]
                        ELSE Append(loanRecs, [assessment_id |-> assessment_id] @@ loanUpdate)
                 /\ reply' = Reply("override", 200, None, None)
                 /\ UNCHANGED <<session, responses, signals, genFailures>>

----------------------------------------------------------------------------
(* The callers: the game client (BootScene, Phase1Scene, SupplyRunScene,    *)
(* ResultScene), any other HTTP caller of the game endpoints, the admin.    *)

MaxGenFailures == 1
MaxAssessments == 2

\* The applicants followed.  Each answers question i with a fixed score:
\*   prudent:  5 on C, 1 on every other trait
\*   stressed: 1 on C, 5 on N, 3 on the others
\*   erratic:  1 and 5 in alternate rounds (no variance ever falls below 0.3)
Applicants == {"prudent", "stressed", "erratic"}

\* trait of the question with index i: the generator is taken to cover the
\* traits in rounds
TraitOrder == <<"C", "N", "A", "O", "E">>
GeneratedTrait(i) == TraitOrder[(i % 5) + 1]

AnswerScore(applicant, i) ==
    LET t == GeneratedTrait(i)
    IN  CASE applicant = "prudent" -> IF t = "C" THEN R(5, 1) ELSE R(1, 1)
          [] applicant = "stressed" ->
                IF t = "C" THEN R(1, 1) ELSE IF t = "N" THEN R(5, 1) ELSE R(3, 1)
          [] OTHER -> IF (i \div 5) % 2 = 0 THEN R(1, 1) ELSE R(5, 1)

\* behavioural score vectors (normalized 0..1) a Supply Run may produce
Phase2Choices ==
    { [t \in Traits |-> IF t = "C" THEN R(1, 1) ELSE R(0, 1)],
      [t \in Traits |-> IF t = "A" THEN R(1, 1) ELSE R(0, 1)],
      [t \in Traits |-> R(1, 2)] }

\* the override requests an admin sends: <<decision, loan_adjustment>>
OverrideChoices ==
    { <<"decline", None>>,
      <<"approve", Some([max_amount |-> 5000, duration_months |-> 6,
                         apr_percent |-> R(30, 1)])>> }

InitStore ==
    /\ session = None
    /\ responses = <<>>
    /\ assessments = <<>>
    /\ loanRecs = <<>>
    /\ signals = <<>>
    /\ reply = None
    /\ genFailures = 0

\* text: the status line last set on the screen; message: the message
\* ResultScene shows ("" before there is one)
NewClient(applicant) ==
    [scene |-> "BootScene", applicant |-> applicant, questionIndex |-> 0,
     retry |-> FALSE, answered |-> 0, result |-> None, text |-> "", message |-> ""]

\* apiCall: the body of a reply that is ok, else an Error thrown with the
\* error field of the body as its message
apiCall(r) ==
    IF r.status = 200 THEN [ok |-> TRUE, body |-> r, thrown |-> ""]
    ELSE [ok |-> FALSE, body |-> r,
          thrown |-> IF r.error # "" THEN r.error ELSE "HTTP error"]

\* scene.start('ResultScene', { decision, ... })
StartResultScene(decision) ==
    [client EXCEPT !.scene = "ResultScene", !.result = Some(decision)]

\* a catch block that shows the Error thrown and passes it on to ResultScene
CatchFailure_ErrorShown(thrown, text, message) ==
    [StartResultScene("pending_approval") EXCEPT !.text = thrown, !.message = thrown]

\* catch (error): the status line is set to text and, on the tap, ResultScene
\* starts with 'pending_approval' and message; the Error thrown is not used
CatchFailure(thrown, text, message) ==
    [StartResultScene("pending_approval") EXCEPT !.text = text, !.message = message]

\* BootScene onStart: api.startGame, then Phase1Scene.init
ClientStart ==
    /\ client.scene = "BootScene"
    /\ HandleStart
    /\ client' = [client EXCEPT !.scene = "Phase1Scene", !.questionIndex = 0]
    /\ UNCHANGED <<arg, result>>

\* Phase1Scene.handleAnswer from the api.nextQuestion call on.  firstTap: the
\* applicant answers the question shown (client.answered counts the questions
\* answered); otherwise the call is the tap-to-retry of the same answer.
handleAnswer(firstTap, generationOk) ==
    LET response ==
            [question_index |-> client.questionIndex,
             trait |-> GeneratedTrait(client.questionIndex),
             score |-> AnswerScore(client.applicant, client.questionIndex)]
        tapped == [client EXCEPT !.answered = IF firstTap THEN @ + 1 ELSE @]
    IN  /\ generationOk \/ genFailures < MaxGenFailures
        /\ HandleNext(response, generationOk)
        /\ IF reply'[1].status = 200
           THEN IF reply'[1].phase1_complete
                THEN client' = [tapped EXCEPT !.questionIndex = @ + 1, !.retry = FALSE,
                                              !.scene = "completePhase1"]
                ELSE client' = [tapped EXCEPT !.questionIndex = @ + 1, !.retry = FALSE]
           ELSE client' = [tapped EXCEPT !.retry = TRUE]

\* the applicant answers the question shown; outcomes: the outcomes of the
\* question generation considered
Answer(outcomes) ==
    /\ client.scene = "Phase1Scene"
    /\ ~client.retry
    /\ \E generationOk \in outcomes : handleAnswer(TRUE, generationOk)
    /\ UNCHANGED <<arg, result>>

\* 'Connection error. Tap to retry.': handleAnswer again with the same answer
Retry(outcomes) ==
    /\ client.scene = "Phase1Scene"
    /\ client.retry
    /\ \E generationOk \in outcomes : handleAnswer(FALSE, generationOk)
    /\ UNCHANGED <<arg, result>>

\* with a question generator that always delivers
ClientAnswer == Answer({TRUE})
ClientRetry == Retry({TRUE})

\* with a question generator that may fail
ClientAnswerUnreliable == Answer(BOOLEAN)
ClientRetryUnreliable == Retry(BOOLEAN)

\* Phase1Scene.completePhase1: api.completePhase1, then the Supply Run, or
\* on failure 'Error. Tap to continue.' and ResultScene
ClientCompletePhase1 ==
    /\ client.scene = "completePhase1"
    /\ Len(assessments) < MaxAssessments
    /\ HandleComplete
    /\ client' = IF apiCall(reply'[1]).ok
                 THEN [client EXCEPT !.scene = "SupplyRunScene.create",
                                     !.text = "Now for a quick mini-game..."]
                 ELSE CatchFailure(apiCall(reply'[1]).thrown,
                          "Error. Tap to continue.",
                          "Thank you for completing the assessment. Our team is reviewing your profile.")
    /\ UNCHANGED <<arg, result>>

\* SupplyRunScene.create: api.getBehavioralConfig, then the game, or on
\* failure 'Error loading game. Tap to skip.' and ResultScene
ClientLoadConfig ==
    /\ client.scene = "SupplyRunScene.create"
    /\ HandleBehavioralConfig
    /\ client' = IF apiCall(reply'[1]).ok
                 THEN [client EXCEPT !.scene = "SupplyRunScene", !.text = ""]
                 ELSE CatchFailure(apiCall(reply'[1]).thrown,
                          "Error loading game. Tap to skip.",
                          "Thank you for completing the assessment.")
    /\ UNCHANGED <<arg, result>>

\* SupplyRunScene.endGame, first call: api.submitBehavioralSignals
ClientSubmitSignals ==
    /\ client.scene = "SupplyRunScene"
    /\ \E behavioralScores \in Phase2Choices : HandleBehavioralSignals(behavioralScores)
    /\ client' = IF apiCall(reply'[1]).ok
                 THEN [client EXCEPT !.scene = "SupplyRunScene.endGame",
                                     !.text = "Analyzing your play style..."]
                 ELSE CatchFailure(apiCall(reply'[1]).thrown,
                          "Processing complete. Tap to continue.",
                          "Thank you for completing the assessment. Our team is reviewing your profile.")
    /\ UNCHANGED <<arg, result>>

\* SupplyRunScene.endGame, second call: api.computeBlendedScore, then
\* ResultScene with the decision of the reply, or on failure with
\* 'pending_approval'
ClientComputeBlendedScore ==
    /\ client.scene = "SupplyRunScene.endGame"
    /\ HandleBehavioralScore
    /\ client' = IF apiCall(reply'[1]).ok
                 THEN [StartResultScene(apiCall(reply'[1]).body.decision[1]) EXCEPT
                          !.text = "Complete!",
                          !.message = apiCall(reply'[1]).body.message]
                 ELSE CatchFailure(apiCall(reply'[1]).thrown,
                          "Processing complete. Tap to continue.",
                          "Thank you for completing the assessment. Our team is reviewing your profile.")
    /\ UNCHANGED <<arg, result>>

\* the game endpoints called by any other HTTP caller, in any order
DirectComplete ==
    /\ Len(assessments) < MaxAssessments
    /\ HandleComplete
    /\ UNCHANGED <<arg, result, client>>

DirectBehavioralConfig ==
    /\ HandleBehavioralConfig
    /\ UNCHANGED <<arg, result, client>>

DirectBehavioralSignals ==
    /\ \E behavioralScores \in Phase2Choices : HandleBehavioralSignals(behavioralScores)
    /\ UNCHANGED <<arg, result, client>>

DirectBehavioralScore ==
    /\ HandleBehavioralScore
    /\ UNCHANGED <<arg, result, client>>

AdminOverride ==
    /\ \E assessment_id \in 1..Len(assessments), choice \in OverrideChoices :
          HandleAdminOverride(assessment_id, choice[1], choice[2])
    /\ UNCHANGED <<arg, result, client>>

Init ==
    /\ arg = [fn |-> "none"]
    /\ result = None
    /\ InitStore
    /\ \E applicant \in Applicants : client = NewClient(applicant)

Next ==
    \/ ClientStart
    \/ ClientAnswer
    \/ ClientRetry
    \/ ClientCompletePhase1
    \/ ClientLoadConfig
    \/ ClientSubmitSignals
    \/ ClientComputeBlendedScore
    \/ DirectComplete
    \/ DirectBehavioralConfig
    \/ DirectBehavioralSignals
    \/ DirectBehavioralScore
    \/ AdminOverride

Spec == Init /\ [][Next]_vars

\* Phase 1 alone, played by the game client against a question generator
\* that may fail
NextPhase1 ==
    \/ ClientStart
    \/ ClientAnswerUnreliable
    \/ ClientRetryUnreliable

SpecPhase1 == Init /\ [][NextPhase1]_vars

----------------------------------------------------------------------------
(* Evaluation of the pure functions on bounded inputs.                      *)

GridSteps == 2

\* raw trait values 1 + 4k/GridSteps, k = 0..GridSteps, spanning [1, 5]
RawGrid == {R(GridSteps + 4 * k, GridSteps) : k \in 0..GridSteps}

ProfileModifiers == {MONEY_PROFILES[i].pd_modifier : i \in 1..Len(MONEY_PROFILES)}

InitPD ==
    /\ arg \in [fn : {"calculateFullPD"},
                scores : [Traits -> RawGrid],
                profileModifier : ProfileModifiers]
    /\ result = None
    /\ InitStore
    /\ client = NewClient("prudent")

CallCalculateFullPD ==
    /\ arg.fn = "calculateFullPD"
    /\ result = None
    /\ result' = Some(calculateFullPD(arg.scores, arg.profileModifier))
    /\ UNCHANGED <<arg, storeVars, client, reply, genFailures>>

NextPD == CallCalculateFullPD

SpecPD == InitPD /\ [][NextPD]_vars

PdSteps == 33
ConsistencySteps == 20

\* PD values spread over [PD_MIN, PD_MAX]; with PdSteps = 33 these are 0.02, 0.03, ..., 0.35
PdGrid == {RAdd(PD_MIN, RMul(PD_RANGE, R(k, PdSteps))) : k \in 0..PdSteps}

\* consistency indexes: null, or overall = k/ConsistencySteps in [0, 1]
ConsistencyGrid ==
    {None} \cup {Some([overall |-> R(k, ConsistencySteps)]) : k \in 0..ConsistencySteps}

InitLoan ==
    /\ arg \in [fn : {"determineLoanDecision"},
                pd : PdGrid,
                riskRating : RiskRatings,
                consistency : ConsistencyGrid]
    /\ result = None
    /\ InitStore
    /\ client = NewClient("prudent")

CallDetermineLoanDecision ==
    /\ arg.fn = "determineLoanDecision"
    /\ result = None
    /\ result' = Some(determineLoanDecision(arg.pd, arg.riskRating, arg.consistency))
    /\ UNCHANGED <<arg, storeVars, client, reply, genFailures>>

NextLoan == CallDetermineLoanDecision

SpecLoan == InitLoan /\ [][NextLoan]_vars

----------------------------------------------------------------------------
(* The stopping rule on a growing response history: the computation of      *)
(* /api/game/next after each stored response, without the session status.   *)

MaxHistory == 11

\* scores an answer may carry
StopScores == {R(1, 1), R(5, 1)}

\* what /api/game/next computes from the stored responses
StopState(allResponses) ==
    [variances |-> computeTraitVariances(allResponses),
     complete |-> isAssessmentComplete(computeTraitVariances(allResponses),
                                       Len(allResponses),
                                       QUESTION_CONFIG.variance_threshold,
                                       QUESTION_CONFIG.min_questions,
                                       QUESTION_CONFIG.max_questions)]

InitStop ==
    /\ arg = [fn |-> "isAssessmentComplete", history |-> <<>>]
    /\ result = None
    /\ InitStore
    /\ client = NewClient("prudent")

\* one more response is stored (the questions cover the traits in rounds) and
\* the stopping rule is evaluated on the whole history
AppendResponse ==
    /\ arg.fn = "isAssessmentComplete"
    /\ Len(arg.history) < MaxHistory
    /\ \E score \in StopScores :
          \E history \in {Append(arg.history,
                                 [question_index |-> Len(arg.history),
                                  trait |-> GeneratedTrait(Len(arg.history)),
                                  score |-> score])} :
              /\ arg' = [arg EXCEPT !.history = history]
              /\ result' = Some(StopState(history))
    /\ UNCHANGED <<storeVars, client, reply, genFailures>>

NextStop == AppendResponse

SpecStop == InitStop /\ [][NextStop]_vars

----------------------------------------------------------------------------
(* isAssessmentComplete evaluated on two argument lists that differ in the  *)
(* question count and the variance map.                                     *)

\* variances on both sides of the threshold 0.3 (0.3 itself is not below it)
VarianceGrid == {R(1, 5), R(3, 10)}

\* question counts around min_questions = 8 and max_questions = 15
CountGrid == {0, 7, 8, 9, 14, 15, 16}

InitComplete ==
    /\ arg \in [fn : {"isAssessmentComplete"},
                variances : [Traits -> VarianceGrid],
                questionCount : CountGrid,
                variances2 : [Traits -> VarianceGrid],
                questionCount2 : CountGrid]
    /\ result = None
    /\ InitStore
    /\ client = NewClient("prudent")

CallIsAssessmentComplete ==
    /\ arg.fn = "isAssessmentComplete"
    /\ result = None
    /\ result' = Some([first |-> isAssessmentComplete(arg.variances, arg.questionCount,
                                     QUESTION_CONFIG.variance_threshold,
                                     QUESTION_CONFIG.min_questions,
                                     QUESTION_CONFIG.max_questions),
                       second |-> isAssessmentComplete(arg.variances2, arg.questionCount2,
                                     QUESTION_CONFIG.variance_threshold,
                                     QUESTION_CONFIG.min_questions,
                                     QUESTION_CONFIG.max_questions)])
    /\ UNCHANGED <<arg, storeVars, client, reply, genFailures>>

NextComplete == CallIsAssessmentComplete

SpecComplete == InitComplete /\ [][NextComplete]_vars

----------------------------------------------------------------------------
(* computeTraitVariances evaluated on short response lists with any traits. *)

MaxResponses == 3

ScoreGrid == {R(1, 1), R(3, 1), R(5, 1)}

\* the response lists of length n: any trait and any score of the grid per row
ResponseLists(n) ==
    {[i \in 1..n |-> [question_index |-> i - 1, trait |-> traitOf[i], score |-> scoreOf[i]]] :
        traitOf \in [1..n -> Traits], scoreOf \in [1..n -> ScoreGrid]}

InitVariances ==
    /\ \E n \in 0..MaxResponses :
          arg \in [fn : {"computeTraitVariances"}, responses : ResponseLists(n)]
    /\ result = None
    /\ InitStore
    /\ client = NewClient("prudent")

CallComputeTraitVariances ==
    /\ arg.fn = "computeTraitVariances"
    /\ result = None
    /\ result' = Some(computeTraitVariances(arg.responses))
    /\ UNCHANGED <<arg, storeVars, client, reply, genFailures>>

NextVariances == CallComputeTraitVariances

SpecVariances == InitVariances /\ [][NextVariances]_vars

----------------------------------------------------------------------------
(* blendScores evaluated on bounded inputs.                                 *)

BlendSteps == 2

\* Phase-2 vectors with the same normalized value k/BlendSteps on every trait
\* (each trait is blended on its own, and the Phase-1 vector varies per trait)
Phase2Grid == {[t \in Traits |-> R(k, BlendSteps)] : k \in 0..BlendSteps}

InitBlend ==
    /\ arg \in [fn : {"blendScores"},
                phase1Scores : [Traits -> RawGrid],
                phase2Scores : Phase2Grid]
    /\ result = None
    /\ InitStore
    /\ client = NewClient("prudent")

CallBlendScores ==
    /\ arg.fn = "blendScores"
    /\ result = None
    /\ result' = Some(blendScores(arg.phase1Scores, arg.phase2Scores))
    /\ UNCHANGED <<arg, storeVars, client, reply, genFailures>>

NextBlend == CallBlendScores

SpecBlend == InitBlend /\ [][NextBlend]_vars

----------------------------------------------------------------------------
(* The two classifications of a consistency value evaluated side by side.   *)

FlagSteps == 1000

\* overall values k/FlagSteps in [0, 1]; with FlagSteps = 1000 these include
\* 0.199, 0.20, 0.399, 0.40, 0.599 and 0.60
OverallGrid == {R(k, FlagSteps) : k \in 0..FlagSteps}

InitFlag ==
    /\ arg \in [fn : {"getConsistencyFlag"}, overall : OverallGrid]
    /\ result = None
    /\ InitStore
    /\ client = NewClient("prudent")

CallGetConsistencyFlag ==
    /\ arg.fn = "getConsistencyFlag"
    /\ result = None
    /\ result' = Some([flag |-> getConsistencyFlag(arg.overall),
                       panel |-> getFlag(arg.overall)])
    /\ UNCHANGED <<arg, storeVars, client, reply, genFailures>>

NextFlag == CallGetConsistencyFlag

SpecFlag == InitFlag /\ [][NextFlag]_vars

----------------------------------------------------------------------------
(* computeAllBehavioralScores over signal bundles that include the          *)
(* degenerate ones: empty arrays, zero counts, zero distances, zero mean    *)
(* tap interval, identical or unordered banking timestamps.                 *)

Path(optimal, actual) == [optimal_dist |-> <<optimal, 1>>, actual_dist |-> <<actual, 1>>]
Banking(ts) == [timestamp_ms |-> <<ts, 1>>]
Loss(delta) == [behavior_delta |-> delta]
Cargo(crates, tipped) == [crates |-> <<crates, 1>>, tipped |-> tipped]
Sharing(offered, accepted, split) ==
    [offered |-> offered, accepted |-> accepted, reward_split |-> split]
Numbers(ints) == [i \in 1..Len(ints) |-> <<ints[i], 1>>]

PathGrid ==
    { <<>>,
      <<Path(5, 0)>>,
      <<Path(4, 8), Path(10, 5)>> }

BankingGrid ==
    { <<>>,
      <<Banking(1000)>>,
      <<Banking(1000), Banking(1000)>>,
      <<Banking(1000), Banking(2000), Banking(3000)>>,
      <<Banking(0), Banking(100), Banking(1000)>>,
      <<Banking(1000), Banking(0), Banking(1000)>> }

VelocityGrid ==
    { <<>>,
      Numbers(<<0, 0, 0>>),
      Numbers(<<100>>),
      Numbers(<<300, 300, 300>>),
      Numbers(<<0, 0, 0, 0, 500>>),
      Numbers(<<1000, 1400>>) }

LossGrid ==
    { <<>>,
      <<Loss(<<-2, 1>>), Loss(R(1, 2))>> }

CargoGrid ==
    { <<>>,
      <<Cargo(3, FALSE), Cargo(9, TRUE)>>,
      <<Cargo(9, FALSE)>> }

SharingGrid ==
    { <<>>,
      <<Sharing(FALSE, FALSE, <<0, 1>>)>>,
      <<Sharing(TRUE, TRUE, R(1, 2)), Sharing(TRUE, FALSE, <<0, 1>>)>> }

\* <<exploration_tiles, total_tiles>>
TileGrid == { <<0, 0>>, <<5, 0>>, <<3, 10>> }

\* <<crowd_time_ms, quiet_time_ms>>
TimeGrid == { <<0, 0>>, <<3000, 1000>> }

MultiOrderGrid == { <<>>, Numbers(<<1, 2, 3>>) }

Bundle(paths, banking, velocities, losses, cargo, sharing, tiles, times, multi) ==
    [duration_ms |-> <<90000, 1>>,
     tap_velocities |-> velocities,
     path_records |-> paths,
     banking_events |-> banking,
     cargo_loads |-> cargo,
     loss_events |-> losses,
     sharing_events |-> sharing,
     exploration_tiles |-> <<tiles[1], 1>>,
     total_tiles |-> <<tiles[2], 1>>,
     crowd_time_ms |-> <<times[1], 1>>,
     quiet_time_ms |-> <<times[2], 1>>,
     multi_order_counts |-> multi]

EmptyBundle == Bundle(<<>>, <<>>, <<>>, <<>>, <<>>, <<>>, <<0, 0>>, <<0, 0>>, <<>>)

InitBehavioral ==
    /\ \E paths \in PathGrid, banking \in BankingGrid, velocities \in VelocityGrid,
          losses \in LossGrid, cargo \in CargoGrid, sharing \in SharingGrid,
          tiles \in TileGrid, times \in TimeGrid, multi \in MultiOrderGrid :
          arg = [fn |-> "computeAllBehavioralScores",
                 bundle |-> Bundle(paths, banking, velocities, losses, cargo,
                                   sharing, tiles, times, multi)]
    /\ result = None
    /\ InitStore
    /\ client = NewClient("prudent")

\* the scores, with the intermediate values they are computed from
CallComputeAllBehavioralScores ==
    /\ arg.fn = "computeAllBehavioralScores"
    /\ result = None
    /\ result' = Some(
         [scores |-> computeAllBehavioralScores(arg.bundle),
          bankingRegularity |->
              computeBankingRegularity(arg.bundle.banking_events, arg.bundle.duration_ms),
          parts |->
              << computePathEfficiency(arg.bundle.path_records),
                 computeTapDeliberation(arg.bundle.tap_velocities),
                 computePostLossChange(arg.bundle.loss_events, arg.bundle.tap_velocities),
                 computeHesitationPattern(arg.bundle.tap_velocities),
                 computeBartScore(arg.bundle.cargo_loads),
                 computeSharingRate(arg.bundle.sharing_events),
                 computeTipRate(arg.bundle.sharing_events),
                 computeHelpAcceptance(arg.bundle.sharing_events),
                 computeShortcutUsage(arg.bundle.path_records),
                 computeMultiOrderRate(arg.bundle.multi_order_counts) >>])
    /\ UNCHANGED <<arg, storeVars, client, reply, genFailures>>

NextBehavioral == CallComputeAllBehavioralScores

SpecBehavioral == InitBehavioral /\ [][NextBehavioral]_vars

----------------------------------------------------------------------------
(* computeBartScore over short lists of cargo loads.                        *)

MaxLoads == 3
CrateGrid == {0, 3, 7, 9}
LoadGrid == {Cargo(n, tipped) : n \in CrateGrid, tipped \in BOOLEAN}

CargoLists(n) == UNION {[1..k -> LoadGrid] : k \in 0..n}

InitBart ==
    /\ arg \in [fn : {"computeBartScore"}, cargoLoads : CargoLists(MaxLoads),
                extra : {Cargo(n, TRUE) : n \in CrateGrid}]
    /\ result = None
    /\ InitStore
    /\ client = NewClient("prudent")

\* the score of the list, of the list without its tipped loads, and of the
\* list with one more tipped load
CallComputeBartScore ==
    /\ arg.fn = "computeBartScore"
    /\ result = None
    /\ result' = Some(
         [score |-> computeBartScore(arg.cargoLoads),
          tippedRemoved |->
              computeBartScore(SelectSeq(arg.cargoLoads, LAMBDA c : ~c.tipped)),
          tippedAdded |-> computeBartScore(Append(arg.cargoLoads, arg.extra))])
    /\ UNCHANGED <<arg, storeVars, client, reply, genFailures>>

NextBart == CallComputeBartScore

SpecBart == InitBart /\ [][NextBart]_vars

----------------------------------------------------------------------------
(* selectOptimalQuestion over short candidate lists.                        *)

MaxCandidates == 3
CandidateTraits == {"C", "N"}
CandidateTypes == {"grid", "bars"}
CandidateGrid == [trait : CandidateTraits, question_type : CandidateTypes]

\* variances 0.1, 0.3 and 1: 0.1 with the bonus ties with 0.3 without
SelectVarianceGrid == {R(1, 10), R(3, 10), R(1, 1)}

VarianceMaps ==
    {Ocean(R(1, 1), c, R(1, 1), R(1, 1), n) : c \in SelectVarianceGrid, n \in SelectVarianceGrid}

InitSelect ==
    /\ arg \in [fn : {"selectOptimalQuestion"},
                candidates : UNION {[1..k -> CandidateGrid] : k \in 1..MaxCandidates},
                traitVariances : VarianceMaps,
                previousTypes : {<<>>, <<"grid">>, <<"bars", "grid">>}]
    /\ result = None
    /\ InitStore
    /\ client = NewClient("prudent")

CallSelectOptimalQuestion ==
    /\ arg.fn = "selectOptimalQuestion"
    /\ result = None
    /\ result' = Some(selectOptimalQuestion(arg.candidates, arg.traitVariances,
                                            arg.previousTypes))
    /\ UNCHANGED <<arg, storeVars, client, reply, genFailures>>

NextSelect == CallSelectOptimalQuestion

SpecSelect == InitSelect /\ [][NextSelect]_vars

----------------------------------------------------------------------------
(* selectHighestVarianceTrait over variance maps.                           *)

TraitVarianceGrid == {R(0, 1), R(3, 10), R(1, 1)}

InitHighest ==
    /\ arg \in [fn : {"selectHighestVarianceTrait"},
                variances : [Traits -> TraitVarianceGrid]]
    /\ result = None
    /\ InitStore
    /\ client = NewClient("prudent")

CallSelectHighestVarianceTrait ==
    /\ arg.fn = "selectHighestVarianceTrait"
    /\ result = None
    /\ result' = Some(selectHighestVarianceTrait(arg.variances))
    /\ UNCHANGED <<arg, storeVars, client, reply, genFailures>>

NextHighest == CallSelectHighestVarianceTrait

SpecHighest == InitHighest /\ [][NextHighest]_vars

----------------------------------------------------------------------------
(* normalizeScore and denormalizeScore, one after the other.                *)

RoundSteps == 100

\* raw scores 1 + 4k/RoundSteps and normalized scores k/RoundSteps
RawScores == {R(RoundSteps + 4 * k, RoundSteps) : k \in 0..RoundSteps}
NormalizedScores == {R(k, RoundSteps) : k \in 0..RoundSteps}

InitRound ==
    /\ \/ arg \in [fn : {"normalizeScore"}, score : RawScores]
       \/ arg \in [fn : {"denormalizeScore"}, score : NormalizedScores]
    /\ result = None
    /\ InitStore
    /\ client = NewClient("prudent")

\* normalizeScore(r), then denormalizeScore of it
CallNormalizeThenDenormalize ==
    /\ arg.fn = "normalizeScore"
    /\ result = None
    /\ result' = Some([first |-> normalizeScore(arg.score),
                       back |-> denormalizeScore(normalizeScore(arg.score))])
    /\ UNCHANGED <<arg, storeVars, client, reply, genFailures>>

\* denormalizeScore(n), then normalizeScore of it
CallDenormalizeThenNormalize ==
    /\ arg.fn = "denormalizeScore"
    /\ result = None
    /\ result' = Some([first |-> denormalizeScore(arg.score),
                       back |-> normalizeScore(denormalizeScore(arg.score))])
    /\ UNCHANGED <<arg, storeVars, client, reply, genFailures>>

NextRound == CallNormalizeThenDenormalize \/ CallDenormalizeThenNormalize

SpecRound == InitRound /\ [][NextRound]_vars

----------------------------------------------------------------------------
(* The scoring pipeline of the two handlers, from trait scores to the rows  *)
(* they store.                                                              *)

\* consistency indices of the blended pipeline, on both sides of the review
\* threshold
PipelineConsistency == {R(2, 10), R(4, 10), R(6, 10)}

InitPipeline ==
    /\ \/ arg \in [fn : {"complete"}, scores : [Traits -> RawGrid], consistency : {None}]
       \/ arg \in [fn : {"behavioral-score"}, scores : [Traits -> RawGrid],
                   consistency : {Some([overall |-> x]) : x \in PipelineConsistency}]
    /\ result = None
    /\ InitStore
    /\ client = NewClient("prudent")

\* matchMoneyProfile, calculateFullPD, determineLoanDecision, and the fields
\* written to assessments and loan_recommendations
RunPipeline(scores, consistency) ==
    \E profile \in {matchMoneyProfile(scores).profile} :
    \E pdResult \in {calculateFullPD(scores, profile.pd_modifier)} :
    \E loanDecision \in {determineLoanDecision(pdResult.pdModified, pdResult.riskRating,
                                               consistency)} :
        result' = Some([decision |-> loanDecision.decision,
                        risk_rating |-> pdResult.riskRating,
                        pd_modified |-> pdResult.pdModified,
                        rec_decision |-> RecDecision(loanDecision.decision),
                        max_amount |-> loanDecision.maxAmount,
                        duration_months |-> loanDecision.durationMonths,
                        apr_percent |-> loanDecision.aprPercent])

\* /api/game/complete from the trait averages on
CallPhase1Pipeline ==
    /\ arg.fn = "complete"
    /\ result = None
    /\ RunPipeline(arg.scores, None)
    /\ UNCHANGED <<arg, storeVars, client, reply, genFailures>>

\* /api/game/behavioral-score from the blended scores on
CallBlendedPipeline ==
    /\ arg.fn = "behavioral-score"
    /\ result = None
    /\ RunPipeline(arg.scores, arg.consistency)
    /\ UNCHANGED <<arg, storeVars, client, reply, genFailures>>

NextPipeline == CallPhase1Pipeline \/ CallBlendedPipeline

SpecPipeline == InitPipeline /\ [][NextPipeline]_vars

----------------------------------------------------------------------------
(* computeTraitAverages, computeTraitVariances and isAssessmentComplete on  *)
(* a response list and on a permutation of it.                              *)

PerTrait == 2

\* the scores one trait receives, in the order of its questions: all 1, all
\* 5, or a 1 followed by 5s
ScoreRuns ==
    { [i \in 1..PerTrait |-> R(1, 1)],
      [i \in 1..PerTrait |-> R(5, 1)],
      [i \in 1..PerTrait |-> IF i = 1 THEN R(1, 1) ELSE R(5, 1)] }

\* the history in which the traits are asked in rounds
RoundsHistory(runs) ==
    [i \in 1..(5 * PerTrait) |->
        [question_index |-> i - 1,
         trait |-> TraitOrder[((i - 1) % 5) + 1],
         score |-> runs[TraitOrder[((i - 1) % 5) + 1]][((i - 1) \div 5) + 1]]]

\* permutations of 1..n: the rotations, the reversal and the exchanges of
\* two neighbours
ListPermutations(n) ==
    {[i \in 1..n |-> ((i - 1 + k) % n) + 1] : k \in 1..(n - 1)}
    \cup {[i \in 1..n |-> n + 1 - i]}
    \cup {[i \in 1..n |-> IF i = j THEN j + 1 ELSE IF i = j + 1 THEN j ELSE i] :
            j \in 1..(n - 1)}

Permuted(list, perm) == [i \in 1..Len(list) |-> list[perm[i]]]

InitPermute ==
    /\ \E runs \in [Traits -> ScoreRuns], perm \in ListPermutations(5 * PerTrait) :
          arg = [fn |-> "permute", responses |-> RoundsHistory(runs), perm |-> perm]
    /\ result = None
    /\ InitStore
    /\ client = NewClient("prudent")

\* the averages, the variances and the stopping decision of a list
Measures(responseList) ==
    [averages |-> computeTraitAverages(responseList),
     variances |-> computeTraitVariances(responseList),
     complete |-> isAssessmentComplete(computeTraitVariances(responseList),
                                       Len(responseList),
                                       QUESTION_CONFIG.variance_threshold,
                                       QUESTION_CONFIG.min_questions,
                                       QUESTION_CONFIG.max_questions)]

CallOnPermutation ==
    /\ arg.fn = "permute"
    /\ result = None
    /\ \E original \in {Measures(arg.responses)} :
       \E permuted \in {Measures(Permuted(arg.responses, arg.perm))} :
          result' = Some([original |-> original, permuted |-> permuted])
    /\ UNCHANGED <<arg, storeVars, client, reply, genFailures>>

NextPermute == CallOnPermutation

SpecPermute == InitPermute /\ [][NextPermute]_vars

----------------------------------------------------------------------------
(* The Agreeableness sub-scores over short lists of sharing events.         *)

MaxSharing == 3
SplitGrid == {R(0, 1), R(1, 2), R(1, 1)}
SharingEvents == {Sharing(o, a, x) : o \in BOOLEAN, a \in BOOLEAN, x \in SplitGrid}

InitSharing ==
    /\ arg \in [fn : {"computeBehavioralA"},
                events : UNION {[1..k -> SharingEvents] : k \in 0..MaxSharing}]
    /\ result = None
    /\ InitStore
    /\ client = NewClient("prudent")

CallComputeBehavioralA ==
    /\ arg.fn = "computeBehavioralA"
    /\ result = None
    /\ result' = Some([sharingRate |-> computeSharingRate(arg.events),
                       helpAcceptance |-> computeHelpAcceptance(arg.events),
                       score |-> computeBehavioralA([sharing_events |-> arg.events])])
    /\ UNCHANGED <<arg, storeVars, client, reply, genFailures>>

NextSharing == CallComputeBehavioralA

SpecSharing == InitSharing /\ [][NextSharing]_vars

----------------------------------------------------------------------------
(* A Supply Run: SupplyRunScene with its SignalTracker.                     *)

MaxTaps == 4
MaxDeliveries == 2

\* the time between two taps, in ms
TapIntervals == {200, 1500}

\* 100 * BART_RISK_CURVE
BART_RISK_CURVE == <<0, 5, 15, 30, 50, 75, 90>>

NewTracker ==
    [tapVelocities |-> <<>>, pathRecords |-> <<>>, bankingEvents |-> <<>>,
     cargoLoads |-> <<>>, lossEvents |-> <<>>, sharingEvents |-> <<>>,
     prevBehaviorMetric |-> R(0, 1)]

\* values.slice(-n)
LastOf(values, n) ==
    IF Len(values) <= n THEN values ELSE SubSeq(values, Len(values) - n + 1, Len(values))

\* SignalTracker.recordTap; taps: the taps recorded before, interval: the
\* time since the previous tap
recordTap(tracker, taps, interval) ==
    IF taps >= 1
    THEN [tracker EXCEPT !.tapVelocities = Append(@, <<interval, 1>>)]
    ELSE tracker

\* SignalTracker.recordCargoLoad
recordCargoLoad(tracker, crates, tipped, reward, deliveryId) ==
    LET loads == Append(tracker.cargoLoads,
                        [crates |-> <<crates, 1>>, tipped |-> tipped,
                         reward |-> reward, delivery_id |-> deliveryId])
        recentLoads == LastOf(loads, 3)
        avgRecent == JDiv(JSum([i \in 1..Len(recentLoads) |-> recentLoads[i].crates]),
                          Count(recentLoads))
        delta == RAbs(JSub(avgRecent, tracker.prevBehaviorMetric))
    IN  [tracker EXCEPT
            !.cargoLoads = loads,
            !.prevBehaviorMetric = avgRecent,
            !.lossEvents =
                IF tipped
                THEN Append(@, [type |-> "tip_over", amount_lost |-> crates * 10,
                                behavior_delta |-> JMin(<<1, 1>>, JDiv(delta, <<3, 1>>))])
                ELSE @]

\* SignalTracker.recordPath
recordPath(tracker, actualDist, optimalDist, deliveryId) ==
    [tracker EXCEPT !.pathRecords =
        Append(@, [actual_dist |-> <<actualDist, 1>>, optimal_dist |-> <<optimalDist, 1>>,
                   delivery_id |-> deliveryId])]

\* SignalTracker.recordBanking
recordBanking(tracker, amount, balanceBefore) ==
    [tracker EXCEPT !.bankingEvents =
        Append(@, [amount |-> amount, balance_before |-> balanceBefore])]

\* SignalTracker.recordLoss
recordLoss(tracker, type, amountLost) ==
    LET recentVelocities == LastOf(tracker.tapVelocities, 5)
        avgVelocity ==
            IF Len(recentVelocities) > 0
            THEN JDiv(JSum(recentVelocities), Count(recentVelocities))
            ELSE <<500, 1>>
        normalizedDelta ==
            JMin(<<1, 1>>, JDiv(RAbs(JSub(avgVelocity, <<500, 1>>)), <<1000, 1>>))
    IN  [tracker EXCEPT !.lossEvents =
            Append(@, [type |-> type, amount_lost |-> amountLost,
                       behavior_delta |-> normalizedDelta])]

\* SignalTracker.recordSharing
recordSharing(tracker, offered, accepted, rewardSplit) ==
    [tracker EXCEPT !.sharingEvents =
        Append(@, [offered |-> offered, accepted |-> accepted, reward_split |-> rewardSplit])]

\* the scene after setupGame; thief: the thief event is "scheduled", "shown"
\* (its two buttons are on the screen) or "done"
NewSupplyRun ==
    [scene |-> "SupplyRunScene", gameActive |-> TRUE, cargoCount |-> 0, coins |-> 0,
     bankedCoins |-> 0, deliveryCount |-> 0, taps |-> 0, thief |-> "scheduled",
     tracker |-> NewTracker]

InitSupplyRun ==
    /\ arg = [fn |-> "none"]
    /\ result = None
    /\ InitStore
    /\ client = NewSupplyRun

\* loadBtn pointerup
SupplyLoad ==
    /\ client.gameActive
    /\ client.cargoCount < Len(BART_RISK_CURVE)
    /\ client.taps < MaxTaps
    /\ \E interval \in TapIntervals :
          client' = [client EXCEPT
                        !.cargoCount = @ + 1,
                        !.taps = @ + 1,
                        !.tracker = recordTap(@, client.taps, interval)]
    /\ UNCHANGED <<arg, result, storeVars, reply, genFailures>>

\* goBtn pointerup, the cargo not tipping over
deliverSafely ==
    [client EXCEPT
        !.deliveryCount = @ + 1,
        !.coins = @ + client.cargoCount * 10,
        !.cargoCount = 0,
        !.tracker = recordPath(
                        recordCargoLoad(@, client.cargoCount, FALSE, client.cargoCount * 10,
                                        client.deliveryCount + 1),
                        client.cargoCount * 3, client.cargoCount * 2,
                        client.deliveryCount + 1)]

\* goBtn pointerup, the cargo tipping over
deliverTipped ==
    [client EXCEPT
        !.deliveryCount = @ + 1,
        !.cargoCount = 0,
        !.tracker = recordLoss(
                        recordCargoLoad(@, client.cargoCount, TRUE, 0,
                                        client.deliveryCount + 1),
                        "tip_over", client.cargoCount * 10)]

\* goBtn pointerup: Math.random() < tipProbability decides
SupplyDeliver ==
    /\ client.gameActive
    /\ client.cargoCount # 0
    /\ client.deliveryCount < MaxDeliveries
    /\ \E tipped \in BOOLEAN :
          /\ tipped => BART_RISK_CURVE[client.cargoCount] > 0
          /\ client' = IF tipped THEN deliverTipped ELSE deliverSafely
    /\ UNCHANGED <<arg, result, storeVars, reply, genFailures>>

\* bankBtn pointerup
SupplyBank ==
    /\ client.gameActive
    /\ client.coins # 0
    /\ client' = [client EXCEPT
                     !.bankedCoins = @ + client.coins,
                     !.coins = 0,
                     !.tracker = recordBanking(@, client.coins, client.bankedCoins)]
    /\ UNCHANGED <<arg, result, storeVars, reply, genFailures>>

\* handleThiefEvent: the warning and its two buttons appear
ThiefAppears ==
    /\ client.gameActive
    /\ client.thief = "scheduled"
    /\ client' = [client EXCEPT !.thief = "shown"]
    /\ UNCHANGED <<arg, result, storeVars, reply, genFailures>>

\* protectBtn pointerup
ThiefProtect ==
    /\ client.thief = "shown"
    /\ client' = [client EXCEPT
                     !.thief = "done",
                     !.tracker = recordSharing(@, TRUE, TRUE, R(0, 1))]
    /\ UNCHANGED <<arg, result, storeVars, reply, genFailures>>

\* riskBtn pointerup: Math.random() < 0.5 decides on the theft of
\* floor(coins * 0.3)
ThiefRisk ==
    /\ client.thief = "shown"
    /\ \E theft \in BOOLEAN :
          client' =
              IF theft
              THEN [client EXCEPT
                       !.thief = "done",
                       !.coins = @ - ((client.coins * 3) \div 10),
                       !.tracker = recordSharing(
                                       recordLoss(@, "theft", (client.coins * 3) \div 10),
                                       TRUE, FALSE, R(0, 1))]
              ELSE [client EXCEPT
                       !.thief = "done",
                       !.tracker = recordSharing(@, TRUE, FALSE, R(0, 1))]
    /\ UNCHANGED <<arg, result, storeVars, reply, genFailures>>

\* no choice within 5 seconds
ThiefTimeout ==
    /\ client.thief = "shown"
    /\ client' = [client EXCEPT
                     !.thief = "done",
                     !.tracker = recordSharing(@, TRUE, FALSE, R(0, 1))]
    /\ UNCHANGED <<arg, result, storeVars, reply, genFailures>>

NextSupplyRun ==
    \/ SupplyLoad
    \/ SupplyDeliver
    \/ SupplyBank
    \/ ThiefAppears
    \/ ThiefProtect
    \/ ThiefRisk
    \/ ThiefTimeout

SpecSupplyRun == InitSupplyRun /\ [][NextSupplyRun]_vars

----------------------------------------------------------------------------
(* generateEventSchedule of api/game/behavioral-config.                     *)

HexDigits ==
    <<"0", "1", "2", "3", "4", "5", "6", "7", "8", "9", "a", "b", "c", "d", "e", "f">>

HexValue(char) == (CHOOSE i \in 1..16 : HexDigits[i] = char) - 1

RECURSIVE HexFold(_, _)
HexFold(chars, n) ==
    IF n = 0 THEN 0 ELSE HexFold(chars, n - 1) * 16 + HexValue(chars[n])

\* parseInt(gameSeed.slice(0, 8), 16): the number hi * 2^16 + lo, kept as
\* <<hi, lo>> with both halves in 0..65535
parseSeed(gameSeed) ==
    <<HexFold(SubSeq(gameSeed, 1, 4), 4), HexFold(SubSeq(gameSeed, 5, 8), 4)>>

\* seedNum % m of the non-negative number seedNum
SeedMod(seedNum, m) == ((seedNum[1] % m) * (65536 % m) + seedNum[2]) % m

\* ToInt32 of seedNum, the left operand of >>
ToInt32(seedNum) ==
    IF seedNum[1] >= 32768
    THEN (seedNum[1] - 65536) * 65536 + seedNum[2]
    ELSE seedNum[1] * 65536 + seedNum[2]

\* seedNum >> k: the sign-propagating shift of the 32-bit value
ShiftRight(seedNum, k) ==
    LET n == ToInt32(seedNum)
    IN  IF n >= 0 THEN n \div (2 ^ k) ELSE -(((-(n + 1)) \div (2 ^ k)) + 1)

\* n % m of JavaScript: the remainder has the sign of n
JsRem(n, m) == IF n >= 0 THEN n % m ELSE -((-n) % m)

RECURSIVE InsertByTriggerTime(_, _)
InsertByTriggerTime(sorted, event) ==
    IF sorted = <<>> THEN <<event>>
    ELSE IF sorted[Len(sorted)].trigger_time_ms <= event.trigger_time_ms
         THEN Append(sorted, event)
         ELSE Append(InsertByTriggerTime(SubSeq(sorted, 1, Len(sorted) - 1), event),
                     sorted[Len(sorted)])

\* events.sort((a, b) => a.trigger_time_ms - b.trigger_time_ms), a stable sort
RECURSIVE SortUpTo(_, _)
SortUpTo(events, n) ==
    IF n = 0 THEN <<>> ELSE InsertByTriggerTime(SortUpTo(events, n - 1), events[n])

SortByTriggerTime(events) == SortUpTo(events, Len(events))

generateEventSchedule(gameSeed) ==
    LET seedNum == parseSeed(gameSeed)
    IN  SortByTriggerTime(<<
            [type |-> "thief",
             trigger_time_ms |-> 15000 + SeedMod(seedNum, 10000),
             position |-> [x |-> 5 + SeedMod(seedNum, 10),
                           y |-> 3 + JsRem(ShiftRight(seedNum, 4), 8)],
             steal_amount_percent |-> R(30 + SeedMod(seedNum, 20), 100)],
            [type |-> "helper",
             trigger_time_ms |-> 25000 + JsRem(ShiftRight(seedNum, 8), 15000),
             position |-> [x |-> 10 + JsRem(ShiftRight(seedNum, 12), 8),
                           y |-> 5 + JsRem(ShiftRight(seedNum, 16), 6)],
             steal_amount_percent |-> R(0, 1)],
            [type |-> "premium_customer",
             trigger_time_ms |-> 30000 + JsRem(ShiftRight(seedNum, 20), 20000),
             position |-> [x |-> 15 + JsRem(ShiftRight(seedNum, 24), 4),
                           y |-> 2 + JsRem(ShiftRight(seedNum, 28), 10)],
             steal_amount_percent |-> R(0, 1)],
            [type |-> "shortcut",
             trigger_time_ms |-> 20000 + JsRem(ShiftRight(seedNum, 4), 5000),
             position |-> [x |-> 8 + JsRem(ShiftRight(seedNum, 8), 4),
                           y |-> 7 + JsRem(ShiftRight(seedNum, 12), 3)],
             steal_amount_percent |-> R(0, 1)] >>)

\* the hex digits the first eight characters of a seed are drawn from
SeedChars == {"0", "7", "8", "f"}

InitSchedule ==
    /\ \E gameSeed \in [1..8 -> SeedChars] :
          arg = [fn |-> "generateEventSchedule", gameSeed |-> gameSeed]
    /\ result = None
    /\ InitStore
    /\ client = NewClient("prudent")

CallGenerateEventSchedule ==
    /\ result = None
    /\ result' = Some(generateEventSchedule(arg.gameSeed))
    /\ UNCHANGED <<arg, storeVars, client, reply, genFailures>>

NextSchedule == CallGenerateEventSchedule

SpecSchedule == InitSchedule /\ [][NextSchedule]_vars

----------------------------------------------------------------------------
(* Claims about the pure scoring functions.                                 *)

LoanCalled == arg.fn = "determineLoanDecision" /\ result # None
ArgOverall == IF arg.consistency = None THEN <<0, 1>> ELSE arg.consistency[1].overall

C8_ReviewAtThreshold ==
    LoanCalled =>
        /\ (100 * arg.pd[1] < 8 * arg.pd[2] /\ 100 * ArgOverall[1] >= 40 * ArgOverall[2])
              => /\ result[1].decision = "manual_review"
                 /\ result[1].userFacingDecision = "pending_approval"
        /\ result[1].decision = "approved"
              => /\ 100 * arg.pd[1] < 8 * arg.pd[2]
                 /\ 100 * ArgOverall[1] < 40 * ArgOverall[2]

\* C9: the loan terms depend only on the riskRating argument: low ->
\* 50000/36/8.5, moderate -> 25000/24/14.0, elevated -> 10000/12/22.0,
\* whatever pd, consistency and the decision are.
C9_TermsByRating ==
    LoanCalled =>
        /\ arg.riskRating = "low"
              => /\ result[1].maxAmount = 50000
                 /\ result[1].durationMonths = 36
                 /\ result[1].aprPercent = <<17, 2>>
        /\ arg.riskRating = "moderate"
              => /\ result[1].maxAmount = 25000
                 /\ result[1].durationMonths = 24
                 /\ result[1].aprPercent = <<14, 1>>
        /\ arg.riskRating = "elevated"
              => /\ result[1].maxAmount = 10000
                 /\ result[1].durationMonths = 12
                 /\ result[1].aprPercent = <<22, 1>>

\* C9 witness: a consistency-forced manual_review with rating low carries the
\* low-tier terms
C9_Witness ==
    /\ LoanCalled
    /\ arg.riskRating = "low"
    /\ arg.pd = R(5, 100)
    /\ ArgOverall = R(45, 100)
    /\ result[1].decision = "manual_review"
    /\ result[1].maxAmount = 50000

PDCalled == arg.fn = "calculateFullPD" /\ result # None
InUnit(x) == 0 <= x[1] /\ x[1] <= x[2]
InPDRange(x) == 2 * x[2] <= 100 * x[1] /\ 100 * x[1] <= 35 * x[2]

\* C3: for trait vectors in the raw range 1..5 and every catalog modifier, the
\* five risk contributions and the weighted risk lie in [0, 1], and pdRaw and
\* pdModified lie in [0.02, 0.35].
C3_PDRanges ==
    PDCalled =>
        /\ \A t \in Traits : InUnit(result[1].riskContributions[t])
        /\ InUnit(result[1].weightedRisk)
        /\ InPDRange(result[1].pdRaw)
        /\ InPDRange(result[1].pdModified)

\* C3 witness: the riskiest vector (C = 1, the others 5) with the largest
\* modifier: the ceiling clamps pdModified to 0.35
C3_Witness ==
    /\ PDCalled
    /\ arg.scores = [t \in Traits |-> IF t = "C" THEN <<1, 1>> ELSE <<5, 1>>]
    /\ arg.profileModifier = R(6, 100)
    /\ result[1].weightedRisk = <<1, 1>>
    /\ result[1].pdModified = R(35, 100)

ScenarioA ==
    /\ arg.fn = "calculateFullPD"
    /\ arg.scores = [t \in Traits |->
                        CASE t = "C" -> <<5, 1>> [] t = "N" -> <<1, 1>> [] OTHER -> <<3, 1>>]
    /\ arg.profileModifier = <<0, 1>>

\* C10 (as claimed): for {O:3, C:5, E:3, A:3, N:1} with modifier 0 the weighted
\* risk is 0.08, the PD is 0.0464 and the rating is low.
C10_ScenarioA_AsClaimed ==
    (ScenarioA /\ result # None) =>
        /\ result[1].weightedRisk = R(8, 100)
        /\ result[1].pdRaw = R(464, 10000)
        /\ result[1].riskRating = "low"

\* C10 (amended): for {O:3, C:5, E:3, A:3, N:1} with modifier 0 the weighted
\* risk is 0.20, the PD is 0.086 and the rating is moderate.
C10_ScenarioA ==
    (ScenarioA /\ result # None) =>
        /\ result[1].weightedRisk = R(20, 100)
        /\ result[1].pdRaw = R(86, 1000)
        /\ result[1].pdModified = R(86, 1000)
        /\ result[1].riskRating = "moderate"

\* C10 witness: scenario A has been evaluated
C10_Witness == ScenarioA /\ result # None /\ result[1].riskContributions["C"] = <<0, 1>>

----------------------------------------------------------------------------
(* Claims about the handlers and the game client.                           *)

UserFacingDecisions == {"approved", "pending_approval"}

\* C2: every decision delivered to the applicant - the decision field of a
\* success body of /api/game/complete or /api/game/behavioral-score, which is
\* determineLoanDecision's userFacingDecision, and the decision passed to
\* ResultScene - is approved or pending_approval, and it is approved only when
\* the internal decision computed in the same call is approved.
C2_UserFacingDecision ==
    [][/\ reply'[1].decision # None =>
              /\ reply'[1].decision[1] \in UserFacingDecisions
              /\ reply'[1].decision[1] = "approved" => reply'[1].computed = Some("approved")
       /\ client'.result # None => client'.result[1] \in UserFacingDecisions
       /\ (client'.result # client.result /\ client'.result = Some("approved")) =>
              /\ reply'[1].handler = "behavioral-score"
              /\ reply'[1].status = 200
              /\ reply'[1].computed = Some("approved")]_vars

\* C2 witness: ResultScene shows approved, passed on from a behavioral-score
\* call whose internal decision is approved
C2_Witness ==
    /\ client.scene = "ResultScene"
    /\ client.result = Some("approved")
    /\ reply # None
    /\ reply[1].handler = "behavioral-score"
    /\ reply[1].computed = Some("approved")

\* the session is in phase2_complete and has an assessment
ReadyForBlend ==
    /\ session # None
    /\ session[1].status = "phase2_complete"
    /\ Len(assessments) > 0

\* C4: a /api/game/behavioral-score call succeeds (and stores blended scores, a
\* consistency index and a decision) only if the session has an assessment and
\* its status is phase2_complete; every other call answers 400 or 404 and
\* leaves the assessments, the loan recommendations and the session unchanged.
C4_BlendNeedsPhase1 ==
    [][reply'[1].handler = "behavioral-score" =>
          /\ reply'[1].status = 200 => ReadyForBlend
          /\ reply'[1].status # 200 =>
                /\ reply'[1].status \in {400, 404}
                /\ UNCHANGED <<assessments, loanRecs, session>>]_vars

\* C4 witness: a behavioral-score call has succeeded and stored its results
C4_Witness ==
    /\ reply # None
    /\ reply[1].handler = "behavioral-score"
    /\ reply[1].status = 200
    /\ session = Some([status |-> "completed"])
    /\ Len(assessments) = 1
    /\ assessments[1].blended_trait_scores # None
    /\ assessments[1].consistency_index # None

\* C5 (as claimed): a session never has more than one assessment
C5_OneAssessment == Len(assessments) <= 1

\* C6 (as claimed): once a loan recommendation carries admin_override = true,
\* no /api/game/complete or /api/game/behavioral-score call changes its
\* decision or terms, or the decision of its assessment.
C6_OverrideFinal ==
    [][reply'[1].handler \in {"complete", "behavioral-score"} =>
          \A i \in 1..Len(loanRecs) :
              loanRecs[i].admin_override =>
                  /\ loanRecs'[i] = loanRecs[i]
                  /\ \A j \in 1..Len(assessments) :
                         assessments[j].id = loanRecs[i].assessment_id =>
                             assessments'[j].decision = assessments[j].decision]_vars

\* C7 (as claimed): no two stored responses share a question_index, and there
\* are as many stored responses as questions the applicant answered.
C7_OneResponsePerAnswer ==
    /\ \A i, j \in 1..Len(responses) :
           i # j => responses[i].question_index # responses[j].question_index
    /\ Len(responses) = client.answered

\* a /api/game/next call has just ended Phase 1
Phase1JustEnded ==
    /\ reply'[1].handler = "next"
    /\ session # None
    /\ session[1].status = "in_progress"
    /\ session'[1].status = "phase1_complete"

\* C11: when /api/game/next sets the status to phase1_complete, between 8 and
\* 15 responses are stored; the call that stores the 15th response always
\* ends Phase 1, and no call ends it while fewer than 8 are stored.
C11_Phase1Bounds ==
    [][/\ Phase1JustEnded =>
              /\ QUESTION_CONFIG.min_questions <= Len(responses')
              /\ Len(responses') <= QUESTION_CONFIG.max_questions
       /\ (Len(responses') = QUESTION_CONFIG.max_questions /\ responses' # responses) =>
              /\ session'[1].status = "phase1_complete"
              /\ reply'[1].status = 200
              /\ reply'[1].phase1_complete
       /\ (reply'[1].handler = "next" /\ reply'[1].phase1_complete) =>
              Len(responses') >= QUESTION_CONFIG.min_questions]_vars

\* C11 witness: Phase 1 has been ended by the ceiling, with 15 responses
\* stored and an answer history whose variances never fell below the threshold
C11_Witness ==
    /\ session = Some([status |-> "phase1_complete"])
    /\ Len(responses) = QUESTION_CONFIG.max_questions
    /\ reply # None
    /\ reply[1].handler = "next"
    /\ reply[1].phase1_complete
    /\ \E t \in Traits :
           ~RLt(computeTraitVariances(responses)[t], QUESTION_CONFIG.variance_threshold)

----------------------------------------------------------------------------
(* Claims about the stopping rule.                                          *)

\* the ways to spread n questions over the five traits
HistoryShapes(n) ==
    {counts \in [Traits -> 0..n] :
        counts["O"] + counts["C"] + counts["E"] + counts["A"] + counts["N"] = n}

\* a history with counts[t] responses on each trait t, all with the same
\* score, listed trait by trait (computeTraitVariances groups the scores by
\* trait, so the order of the questions does not enter the variances)
RECURSIVE GroupedFrom(_, _, _)
GroupedFrom(counts, score, k) ==
    IF k > Len(TraitOrder) THEN <<>>
    ELSE [i \in 1..counts[TraitOrder[k]] |-> [trait |-> TraitOrder[k], score |-> score]]
             \o GroupedFrom(counts, score, k + 1)

GroupedHistory(counts, score) ==
    LET rows == GroupedFrom(counts, score, 1)
    IN  [i \in 1..Len(rows) |->
            [question_index |-> i - 1, trait |-> rows[i].trait, score |-> rows[i].score]]

\* C12 (as claimed): for a session that starts, some history of 8 responses
\* makes the stopping rule true.  The histories tried: every way to spread
\* the 8 questions over the traits, with all scores equal (each measured
\* trait then has its least variance, 0).
C12_EndsAtEight ==
    arg.history = <<>> =>
        \E counts \in HistoryShapes(QUESTION_CONFIG.min_questions), score \in StopScores :
            StopState(GroupedHistory(counts, score)).complete

\* C13 (as claimed): once the stopping rule is true on a history it stays true
\* on every history that extends it.
C13_StopMonotone ==
    [][(result # None /\ result[1].complete) => result'[1].complete]_vars

\* the second argument list has a larger count and no higher variance
LaterAndNoHigher ==
    /\ arg.questionCount <= QUESTION_CONFIG.max_questions
    /\ arg.questionCount2 > arg.questionCount
    /\ \A t \in Traits : RLe(arg.variances2[t], arg.variances[t])

\* C14: if isAssessmentComplete is true for a count k <= maxQuestions and a
\* variance map V, it is true for every larger count with a variance map that
\* is nowhere higher than V, threshold, minimum and maximum being the same.
C14_CompleteMonotone ==
    (result # None /\ LaterAndNoHigher /\ result[1].first) => result[1].second

\* C14 witness: true at count 15 by the ceiling with all variances at the
\* threshold, and true at count 16 with variances nowhere higher
C14_Witness ==
    /\ result # None
    /\ LaterAndNoHigher
    /\ arg.questionCount = 15
    /\ arg.questionCount2 = 16
    /\ \A t \in Traits : arg.variances[t] = R(3, 10)
    /\ result[1].first
    /\ result[1].second

\* the scores of the argument's responses on trait t
ArgScores(t) == TraitScoresOf(arg.responses, t)

\* population variance as mean of the squares minus square of the mean
PopulationVariance(values) ==
    LET n == Len(values)
        squares == [i \in 1..n |-> RMul(values[i], values[i])]
        mean == RMul(RSum(values), R(1, n))
    IN  RSub(RMul(RSum(squares), R(1, n)), RMul(mean, mean))

\* C15: computeTraitVariances gives a trait with fewer than 2 responses the
\* value 1.0 and every other trait the population variance of its scores
\* (divisor n, not n - 1); no variance is negative.
C15_TraitVariances ==
    (arg.fn = "computeTraitVariances" /\ result # None) =>
        \A t \in Traits :
            /\ Len(ArgScores(t)) < 2 => result[1][t] = R(1, 1)
            /\ Len(ArgScores(t)) >= 2 => result[1][t] = PopulationVariance(ArgScores(t))
            /\ result[1][t][1] >= 0

\* C15 witness: the scores 1, 1, 5 on trait C give C the variance 32/9 (the
\* divisor n - 1 would give 16/3) and every other trait 1.0
C15_Witness ==
    /\ arg.fn = "computeTraitVariances"
    /\ result # None
    /\ ArgScores("C") = <<R(1, 1), R(1, 1), R(5, 1)>>
    /\ result[1]["C"] = R(32, 9)
    /\ result[1]["N"] = R(1, 1)

----------------------------------------------------------------------------
(* Claims about blending and consistency.                                   *)

\* the weights <<w1, w2>> the claim states, in hundredths
ClaimedBlendWeights ==
    ("C" :> <<55, 45>>) @@ ("N" :> <<50, 50>>) @@ ("A" :> <<60, 40>>)
        @@ ("O" :> <<45, 55>>) @@ ("E" :> <<55, 45>>)

\* 1 + 4 * (w1 * (p1 - 1) / 4 + w2 * p2)
ClaimedBlend(t, p1, p2) ==
    RAdd(R(1, 1),
         RMul(R(4, 1),
              RAdd(RMul(R(ClaimedBlendWeights[t][1], 100), RMul(RSub(p1, R(1, 1)), R(1, 4))),
                   RMul(R(ClaimedBlendWeights[t][2], 100), p2))))

\* C16: each trait of blendScores equals 1 + 4*(w1*(p1-1)/4 + w2*p2) with the
\* stated weights, which sum to 1 per trait; the blended value lies between
\* the Phase-1 score and the denormalized Phase-2 score, and inside [1, 5].
C16_BlendFormula ==
    (arg.fn = "blendScores" /\ result # None) =>
        \A t \in Traits :
            LET p1 == arg.phase1Scores[t]
                p2raw == RAdd(R(1, 1), RMul(R(4, 1), arg.phase2Scores[t]))
                b == result[1][t]
            IN  /\ ClaimedBlendWeights[t][1] + ClaimedBlendWeights[t][2] = 100
                /\ BLENDING_WEIGHTS[t].phase1 = R(ClaimedBlendWeights[t][1], 100)
                /\ BLENDING_WEIGHTS[t].phase2 = R(ClaimedBlendWeights[t][2], 100)
                /\ b = ClaimedBlend(t, p1, arg.phase2Scores[t])
                /\ RLe(RMin(p1, p2raw), b) /\ RLe(b, RMax(p1, p2raw))
                /\ RLe(R(1, 1), b) /\ RLe(b, R(5, 1))

\* C16 witness: Phase-1 C = 5 with Phase-2 C = 0.0 gives blended C = 3.2
C16_Witness ==
    /\ arg.fn = "blendScores"
    /\ result # None
    /\ arg.phase1Scores["C"] = R(5, 1)
    /\ arg.phase2Scores["C"] = R(0, 1)
    /\ result[1]["C"] = R(32, 10)

\* the band the claim states for overall = x, compared in thousandths
ClaimedFlag(x) ==
    IF 1000 * x[1] < 200 * x[2] THEN "highly_consistent"
    ELSE IF 1000 * x[1] < 400 * x[2] THEN "normal_variance"
    ELSE IF 1000 * x[1] < 600 * x[2] THEN "moderate_discrepancy"
    ELSE "high_discrepancy"

\* the eight values the specification lists have been classified as it states
ListedValuesAsStated ==
        /\ arg.overall \in {R(0, 1), R(199, 1000)} => result[1].flag = "highly_consistent"
        /\ arg.overall \in {R(20, 100), R(399, 1000)} => result[1].flag = "normal_variance"
        /\ arg.overall \in {R(40, 100), R(599, 1000)} => result[1].flag = "moderate_discrepancy"
        /\ arg.overall \in {R(60, 100), R(1, 1)} => result[1].flag = "high_discrepancy"

BehavioralCalled == arg.fn = "computeAllBehavioralScores" /\ result # None

C18_BehavioralScoresInUnit ==
    BehavioralCalled =>
        /\ \A t \in Traits :
              /\ Finite(result[1].scores[t])
              /\ RLe(<<0, 1>>, result[1].scores[t])
              /\ RLe(result[1].scores[t], <<1, 1>>)
        /\ Finite(result[1].bankingRegularity)
        /\ \A i \in 1..Len(result[1].parts) : Finite(result[1].parts[i])
        /\ Len(arg.bundle.banking_events) = 0 => result[1].bankingRegularity = <<1, 5>>
        /\ Len(arg.bundle.banking_events) = 1 => result[1].bankingRegularity = <<1, 2>>

\* the scores are out for a bundle with a path of actual distance 0, tap
\* intervals of mean 0, banking events with identical timestamps and no
\* tiles, whose other arrays are empty
C18_Witness ==
    /\ BehavioralCalled
    /\ arg.bundle.path_records = <<Path(5, 0)>>
    /\ arg.bundle.tap_velocities = Numbers(<<0, 0, 0>>)
    /\ arg.bundle.banking_events = <<Banking(1000), Banking(1000)>>
    /\ arg.bundle.total_tiles = <<0, 1>>
    /\ arg.bundle.cargo_loads = <<>>
    /\ arg.bundle.sharing_events = <<>>
    /\ arg.bundle.crowd_time_ms = <<0, 1>>
    /\ arg.bundle.quiet_time_ms = <<0, 1>>

\* C19: computeBartScore is exactly 0.5 when the list holds no non-tipped
\* load; otherwise it is the mean crate count of the non-tipped loads over 7,
\* clamped to [0,1]; adding or removing tipped loads never changes it.
BartCalled == arg.fn = "computeBartScore" /\ result # None

NonTipped(cargoLoads) == {i \in 1..Len(cargoLoads) : ~cargoLoads[i].tipped}

RECURSIVE CratesOf(_, _)
CratesOf(cargoLoads, indices) ==
    IF indices = {} THEN 0
    ELSE LET i == CHOOSE j \in indices : TRUE
         IN  cargoLoads[i].crates[1] + CratesOf(cargoLoads, indices \ {i})

ClaimedBart(cargoLoads) ==
    IF NonTipped(cargoLoads) = {} THEN R(1, 2)
    ELSE RMax(<<0, 1>>,
              RMin(<<1, 1>>,
                   R(CratesOf(cargoLoads, NonTipped(cargoLoads)),
                     7 * Cardinality(NonTipped(cargoLoads)))))

C19_BartScore ==
    BartCalled =>
        /\ result[1].score = ClaimedBart(arg.cargoLoads)
        /\ result[1].tippedRemoved = result[1].score
        /\ result[1].tippedAdded = result[1].score

\* a list that mixes tipped and non-tipped loads has been scored, with a
\* score that is neither a clamp bound nor the default
C19_Witness ==
    /\ BartCalled
    /\ NonTipped(arg.cargoLoads) # {}
    /\ Cardinality(NonTipped(arg.cargoLoads)) < Len(arg.cargoLoads)
    /\ result[1].score \notin {<<0, 1>>, <<1, 1>>, <<1, 2>>}

\* C20: whenever a scoring call of the game client fails (api.completePhase1,
\* api.getBehavioralConfig, api.submitBehavioralSignals or
\* api.computeBlendedScore rejects), the client ends in ResultScene with the
\* decision 'pending_approval', neither the status line nor the message shown
\* is the error text of the server, and ResultScene is never left, so that
\* the failure never leads to 'approved'.
ScoringHandlers == {"complete", "behavioral-config", "behavioral-signals", "behavioral-score"}

\* a step of the client in which the scoring call it makes is rejected
ScoringCallFails ==
    /\ client' # client
    /\ reply'[1].handler \in ScoringHandlers
    /\ ~apiCall(reply'[1]).ok

C20_FailureShowsPending ==
    [][/\ ScoringCallFails =>
              /\ client'.scene = "ResultScene"
              /\ client'.result = Some("pending_approval")
              /\ client'.text # apiCall(reply'[1]).thrown
              /\ client'.message # apiCall(reply'[1]).thrown
              /\ client'.message # reply'[1].error
       /\ client.scene = "ResultScene" => client' = client]_vars

\* api.computeBlendedScore was rejected with the error text of the server,
\* and the client is in ResultScene
C20_Witness ==
    /\ client.scene = "ResultScene"
    /\ client.text = "Processing complete. Tap to continue."
    /\ reply[1].handler = "behavioral-score"
    /\ reply[1].status # 200
    /\ reply[1].error # ""

\* C21: for every non-empty candidate list, selectOptimalQuestion returns the
\* lowest index whose score, the variance of the candidate's trait plus 0.2
\* when its question type is not among the previous types, is maximal over
\* all candidates.
SelectCalled == arg.fn = "selectOptimalQuestion" /\ result # None

ClaimedScore(i) ==
    RAdd(arg.traitVariances[arg.candidates[i + 1].trait],
         IF \A j \in 1..Len(arg.previousTypes) :
                arg.previousTypes[j] # arg.candidates[i + 1].question_type
         THEN R(2, 10) ELSE R(0, 1))

C21_FirstArgMax ==
    SelectCalled =>
        /\ result[1] \in 0..(Len(arg.candidates) - 1)
        /\ \A i \in 0..(Len(arg.candidates) - 1) :
              /\ RLe(ClaimedScore(i), ClaimedScore(result[1]))
              /\ i < result[1] => RLt(ClaimedScore(i), ClaimedScore(result[1]))

\* of three candidates the second is selected: with the bonus it ties with
\* the third, whose trait has the larger variance, and beats the first
C21_Witness ==
    /\ SelectCalled
    /\ Len(arg.candidates) = 3
    /\ result[1] = 1
    /\ ClaimedScore(2) = ClaimedScore(1)
    /\ RLt(ClaimedScore(0), ClaimedScore(1))
    /\ RLt(arg.traitVariances[arg.candidates[2].trait],
           arg.traitVariances[arg.candidates[3].trait])

\* C22: selectHighestVarianceTrait returns a trait of maximal variance, the
\* earliest in the order O, C, E, A, N when several but not all traits tie,
\* and C when all five variances are equal.
HighestCalled == arg.fn = "selectHighestVarianceTrait" /\ result # None

OceanOrder == <<"O", "C", "E", "A", "N">>
OceanIndex(t) == CHOOSE k \in 1..5 : OceanOrder[k] = t
MaximalTraits == {t \in Traits : \A u \in Traits : RLe(arg.variances[u], arg.variances[t])}

C22_HighestVarianceTrait ==
    HighestCalled =>
        IF MaximalTraits = Traits THEN result[1] = "C"
        ELSE /\ result[1] \in MaximalTraits
             /\ \A t \in MaximalTraits : OceanIndex(result[1]) <= OceanIndex(t)

\* C23: for every raw score r in [1,5], denormalizeScore(normalizeScore(r)) = r
\* and normalizeScore(r) is in [0,1]; for every normalized score n in [0,1],
\* normalizeScore(denormalizeScore(n)) = n.
RoundCalled == arg.fn \in {"normalizeScore", "denormalizeScore"} /\ result # None

C23_RoundTrip ==
    RoundCalled =>
        /\ result[1].back = arg.score
        /\ arg.fn = "normalizeScore" =>
              RLe(<<0, 1>>, result[1].first) /\ RLe(result[1].first, <<1, 1>>)

\* a raw score strictly between 1 and 5 has made the round trip
C23_Witness ==
    /\ RoundCalled
    /\ arg.fn = "normalizeScore"
    /\ arg.score = R(17, 5)
    /\ result[1].first = R(3, 5)

\* C24: /api/game/complete stores a Phase-1 assessment only for a session
\* whose status is phase1_complete; called on a session that is still
\* in_progress it answers with an error and stores neither an assessment nor
\* a loan recommendation.
CompleteCalled == reply'[1].handler = "complete"

C24_CompleteNeedsStop ==
    [][CompleteCalled =>
          /\ reply'[1].status = 200 =>
                session # None /\ session[1].status = "phase1_complete"
          /\ (session # None /\ session[1].status = "in_progress") =>
                /\ reply'[1].status # 200
                /\ assessments' = assessments
                /\ loanRecs' = loanRecs]_vars

\* C25: the status of a session only moves forward along in_progress,
\* phase1_complete, phase2_complete, completed: no handler changes it to a
\* value earlier in this order, and a completed session stays completed.
StatusOrder == <<"in_progress", "phase1_complete", "phase2_complete", "completed">>
StatusRank(status) == CHOOSE k \in 1..Len(StatusOrder) : StatusOrder[k] = status

PipelineCalled == arg.fn \in {"complete", "behavioral-score"} /\ result # None

C26_DecisionRatingCoupled ==
    PipelineCalled =>
        /\ result[1].decision = "approved" =>
              /\ result[1].risk_rating = "low"
              /\ result[1].max_amount = 50000
              /\ result[1].duration_months = 36
              /\ result[1].apr_percent = R(85, 10)
        /\ result[1].decision = "pending_approval" => result[1].risk_rating = "moderate"
        /\ result[1].risk_rating = "elevated" => result[1].decision = "manual_review"

\* the blended pipeline has stored the decision pending_approval
C26_Witness ==
    /\ PipelineCalled
    /\ arg.fn = "behavioral-score"
    /\ result[1].decision = "pending_approval"

\* C27: computeTraitAverages, computeTraitVariances and the stopping decision
\* isAssessmentComplete are the same for a response list and for every
\* permutation of it.
PermuteCalled == arg.fn = "permute" /\ result # None

C27_OrderIndependent ==
    PermuteCalled =>
        /\ \A i \in 1..Len(arg.responses) :
              \E j \in 1..Len(arg.responses) : arg.perm[j] = i
        /\ result[1].permuted.averages = result[1].original.averages
        /\ result[1].permuted.variances = result[1].original.variances
        /\ result[1].permuted.complete = result[1].original.complete

\* the measures of a reversed list are out: C, with the scores 1 and 5, has
\* them in the other order there, and the list is not complete
C27_Witness ==
    /\ PermuteCalled
    /\ arg.perm[1] = Len(arg.responses)
    /\ arg.perm[Len(arg.responses)] = 1
    /\ result[1].original.variances["C"] = R(4, 1)
    /\ result[1].original.variances["N"] = R(0, 1)
    /\ ~result[1].original.complete

\* C28: for every list of sharing events computeSharingRate and
\* computeHelpAcceptance return the same value, so that behavioural
\* Agreeableness is clamp01(0.70 * acceptRate + 0.30 * meanRewardSplit).
SharingCalled == arg.fn = "computeBehavioralA" /\ result # None

RECURSIVE SplitSum(_, _)
SplitSum(events, n) ==
    IF n = 0 THEN R(0, 1) ELSE RAdd(SplitSum(events, n - 1), events[n].reward_split)

\* the mean reward split, 0.5 without events
MeanRewardSplit(events) ==
    IF Len(events) = 0 THEN R(1, 2)
    ELSE RMul(SplitSum(events, Len(events)), R(1, Len(events)))

C28_AcceptRatesAgree ==
    SharingCalled =>
        /\ result[1].sharingRate = result[1].helpAcceptance
        /\ result[1].score =
              RMax(R(0, 1),
                   RMin(R(1, 1),
                        RAdd(RMul(R(70, 100), result[1].sharingRate),
                             RMul(R(30, 100), MeanRewardSplit(arg.events)))))

\* scored: a list with an offer accepted, an offer refused and an event
\* accepted without an offer
C28_Witness ==
    /\ SharingCalled
    /\ Len(arg.events) = 3
    /\ \E i, j, k \in 1..3 :
          /\ arg.events[i].offered /\ arg.events[i].accepted
          /\ arg.events[j].offered /\ ~arg.events[j].accepted
          /\ ~arg.events[k].offered /\ arg.events[k].accepted
    /\ result[1].sharingRate = R(1, 2)

\* C29: during a Supply Run the number of loss events of type tip_over held
\* by the SignalTracker equals the number of cargo loads recorded with
\* tipped = true.
TipOverLosses ==
    Len(SelectSeq(client.tracker.lossEvents, LAMBDA e : e.type = "tip_over"))

TippedLoads == Len(SelectSeq(client.tracker.cargoLoads, LAMBDA c : c.tipped))

C29_OneLossPerTipOver == TipOverLosses = TippedLoads

\* C30: for every game seed generateEventSchedule returns the four events
\* sorted by trigger time, each trigger inside its window: thief in
\* [15000, 25000), helper in [25000, 40000), premium customer in
\* [30000, 50000) and shortcut in [20000, 25000).
ScheduleCalled == result # None /\ arg.fn = "generateEventSchedule"

TriggerWindow ==
    [thief |-> <<15000, 25000>>, helper |-> <<25000, 40000>>,
     premium_customer |-> <<30000, 50000>>, shortcut |-> <<20000, 25000>>]

ScheduleSorted ==
    \A i \in 1..(Len(result[1]) - 1) :
        result[1][i].trigger_time_ms <= result[1][i + 1].trigger_time_ms

InsideWindow(event) ==
    /\ TriggerWindow[event.type][1] <= event.trigger_time_ms
    /\ event.trigger_time_ms < TriggerWindow[event.type][2]

C30_ScheduleInsideWindows ==
    ScheduleCalled =>
        /\ Len(result[1]) = 4
        /\ ScheduleSorted
        /\ \A i \in 1..4 : InsideWindow(result[1][i])

============================================================================
